---- MODULE Spec2Model ----
(***************************************************************************)
(* Model of the AI commit message generator:                               *)
(*   - OllamaClient.GenerateCommitMessage (retry loop of the API client),  *)
(*   - DetectGitState / filterCommentLines (git state detection).          *)
(* Strings are sequences of one-character strings.                         *)
(***************************************************************************)
EXTENDS Integers, Sequences, FiniteSets, TLC

VARIABLES
    pc,        \* position of GenerateCommitMessage: "top", "sleeping", "send", "wait", "done"
    attempt,   \* the loop variable `attempt`
    sleeping,  \* delay of the time.Sleep in progress (0: none)
    inflight,  \* HTTP requests sent and not yet answered
    trace,     \* what the call did so far: sends, received responses, finished sleeps
    result,    \* the (string, error) pair returned
    outcomes,  \* number of times the call returned
    urlOK,     \* whether http.NewRequest can parse c.baseURL
    fs,        \* the files under repoRoot that DetectGitState looks at
    ret,       \* what the last DetectGitState call returned
    repo,      \* the repository GetStagedDiff reads: status, HEAD tree, working files
    diffCalls, \* what the GetStagedDiff calls made so far returned
    built,     \* the arguments of buildPrompt and, once it ran, the prompt
    cwd,       \* the process's current working directory
    opened,    \* what the openRepo calls made so far returned
    staged,    \* what the HasStagedChanges call returned
    loader,    \* LoadRules: the directories it walks, its position, its result
    run        \* App.Run: what its calls return, its position, the calls made

clientVars == <<pc, attempt, sleeping, inflight, trace, result, outcomes, urlOK>>
detectVars == <<fs, ret>>
diffVars == <<repo, diffCalls>>
promptVars == <<built>>
openVars == <<cwd, opened>>
stagedVars == <<staged>>
loaderVars == <<loader>>
runVars == <<run>>
vars == <<pc, attempt, sleeping, inflight, trace, result, outcomes, urlOK, fs, ret,
          repo, diffCalls,
          built,
          cwd, opened,
          staged,
          loader,
          run>>

----------------------------------------------------------------------------
(* Bounds of the model *)

\* longest generated text of a response body
MaxTextLen == 2
\* longest message file content enumerated character by character
MaxMsgLen == 5

----------------------------------------------------------------------------
(* Strings *)

Space == {" ", "\n"}
IsSpace(c) == c \in Space

StringsUpTo(alphabet, n) == UNION {[1..k -> alphabet] : k \in 0..n}

RECURSIVE TrimLeft(_)
TrimLeft(s) ==
    IF s # <<>> /\ IsSpace(Head(s)) THEN TrimLeft(Tail(s)) ELSE s

RECURSIVE TrimRight(_)
TrimRight(s) ==
    IF s # <<>> /\ IsSpace(s[Len(s)]) THEN TrimRight(SubSeq(s, 1, Len(s) - 1)) ELSE s

\* strings.TrimSpace
TrimSpace(s) == TrimRight(TrimLeft(s))

\* strings.HasPrefix
HasPrefix(s, p) == Len(s) >= Len(p) /\ SubSeq(s, 1, Len(p)) = p

\* strings.Split(s, "\n"): always at least one element
RECURSIVE SplitLines(_)
SplitLines(s) ==
    IF \E i \in 1..Len(s) : s[i] = "\n"
    THEN LET i == CHOOSE i \in 1..Len(s) : s[i] = "\n" /\ \A j \in 1..(i - 1) : s[j] # "\n"
         IN  <<SubSeq(s, 1, i - 1)>> \o SplitLines(SubSeq(s, i + 1, Len(s)))
    ELSE <<s>>

\* strings.Join(lines, "\n")
RECURSIVE JoinLines(_)
JoinLines(lines) ==
    IF lines = <<>> THEN <<>>
    ELSE IF Len(lines) = 1 THEN lines[1]
    ELSE lines[1] \o <<"\n">> \o JoinLines(Tail(lines))

----------------------------------------------------------------------------
(* OllamaClient.GenerateCommitMessage *)

maxRetries == 3
baseDelay == 2
StatusOK == 200
StatusTooManyRequests == 429

\* the statuses the endpoint answers with
Statuses == {200, 201, 204, 302, 400, 429, 500}
Is2xx(status) == status \in 200..299

\* the generated texts: letters and whitespace
Texts == StringsUpTo({"a", " "}, MaxTextLen)

\* a response body: JSON with a "response" field (absent decodes to the
\* empty string), or something json.Decoder rejects
Bodies == {[json |-> FALSE, text |-> <<>>]} \cup {[json |-> TRUE, text |-> t] : t \in Texts}
NoBody == [json |-> FALSE, text |-> <<>>]

Responses == [status : Statuses, body : Bodies]

NoResult == [msg |-> <<>>, err |-> "pending", status |-> 0, body |-> NoBody]
Returned(msg, err, status, body) == [msg |-> msg, err |-> err, status |-> status, body |-> body]

\* 1 << n
RECURSIVE Shl1(_)
Shl1(n) == IF n = 0 THEN 1 ELSE 2 * Shl1(n - 1)

\* a backoff that grows linearly (mutant)
Delay_Linear(a) == baseDelay * a

\* baseDelay * time.Duration(1<<uint(attempt-1))
Delay(a) == baseDelay * Shl1(a - 1)

\* no backoff at all (mutant)
NeedsBackoff_Never(a) == FALSE

\* if attempt > 0 { ... time.Sleep(delay) }
NeedsBackoff(a) == a > 0

\* every server-side failure is retried too (mutant)
IsRateLimited_Or5xx(status) == status = StatusTooManyRequests \/ status >= 500

\* resp.StatusCode == 429
IsRateLimited(status) == status = StatusTooManyRequests

\* one retry too many (mutant)
LastAttempt_OffByOne(a) == a = maxRetries + 1

\* attempt == maxRetries
LastAttempt(a) == a = maxRetries

\* any 2xx status is a success (mutant)
IsOK_Any2xx(status) == Is2xx(status)

\* only a 5xx status is taken for a failure (mutant)
IsOK_Below500(status) == status < 500

\* resp.StatusCode != http.StatusOK, negated
IsOK(status) == status = StatusOK

\* ollamaResp.Response == ""
IsEmptyResponse(text) == text = <<>>

ClientInit ==
    /\ pc = "top"
    /\ attempt = 0
    /\ sleeping = 0
    /\ inflight = 0
    /\ trace = <<>>
    /\ result = NoResult
    /\ outcomes = 0
    /\ urlOK \in BOOLEAN

\* a return statement of GenerateCommitMessage
Return(r) ==
    /\ pc' = "done"
    /\ result' = r
    /\ outcomes' = outcomes + 1

\* the head of the for loop: the condition, then the start of the backoff
LoopTop ==
    /\ pc = "top"
    /\ IF attempt > maxRetries
       THEN /\ Return(Returned(<<>>, "Unreachable", 0, NoBody))
            /\ UNCHANGED sleeping
       ELSE IF NeedsBackoff(attempt)
       THEN /\ pc' = "sleeping"
            /\ sleeping' = Delay(attempt)
            /\ UNCHANGED <<result, outcomes>>
       ELSE /\ pc' = "send"
            /\ UNCHANGED <<sleeping, result, outcomes>>
    /\ UNCHANGED <<attempt, inflight, trace, urlOK>>
    /\ UNCHANGED detectVars
    /\ UNCHANGED diffVars
    /\ UNCHANGED promptVars
    /\ UNCHANGED openVars
    /\ UNCHANGED stagedVars
    /\ UNCHANGED loaderVars
    /\ UNCHANGED runVars

\* time.Sleep(delay) returns
SleepEnd ==
    /\ pc = "sleeping"
    /\ trace' = Append(trace, [op |-> "slept", delay |-> sleeping])
    /\ sleeping' = 0
    /\ pc' = "send"
    /\ UNCHANGED <<attempt, inflight, result, outcomes, urlOK>>
    /\ UNCHANGED detectVars
    /\ UNCHANGED diffVars
    /\ UNCHANGED promptVars
    /\ UNCHANGED openVars
    /\ UNCHANGED stagedVars
    /\ UNCHANGED loaderVars
    /\ UNCHANGED runVars

\* http.NewRequest, then c.client.Do sends the request
SendRequest ==
    /\ pc = "send"
    /\ IF ~urlOK
       THEN /\ Return(Returned(<<>>, "RequestError", 0, NoBody))
            /\ UNCHANGED <<inflight, trace>>
       ELSE /\ inflight' = inflight + 1
            /\ trace' = Append(trace, [op |-> "send", attempt |-> attempt])
            /\ pc' = "wait"
            /\ UNCHANGED <<result, outcomes>>
    /\ UNCHANGED <<attempt, sleeping, urlOK>>
    /\ UNCHANGED detectVars
    /\ UNCHANGED diffVars
    /\ UNCHANGED promptVars
    /\ UNCHANGED openVars
    /\ UNCHANGED stagedVars
    /\ UNCHANGED loaderVars
    /\ UNCHANGED runVars

\* a failed attempt is retried like a 429 while attempts are left (mutant)
TransportFailure_Retried ==
    /\ pc = "wait"
    /\ inflight' = inflight - 1
    /\ trace' = Append(trace, [op |-> "failed"])
    /\ IF LastAttempt(attempt)
       THEN /\ Return(Returned(<<>>, "TransportError", 0, NoBody))
            /\ UNCHANGED attempt
       ELSE /\ attempt' = attempt + 1
            /\ pc' = "top"
            /\ UNCHANGED <<result, outcomes>>
    /\ UNCHANGED <<sleeping, urlOK>>
    /\ UNCHANGED detectVars
    /\ UNCHANGED diffVars
    /\ UNCHANGED promptVars
    /\ UNCHANGED openVars
    /\ UNCHANGED stagedVars
    /\ UNCHANGED loaderVars
    /\ UNCHANGED runVars

\* c.client.Do returns an error: no response, or the client's timeout
TransportFailure ==
    /\ pc = "wait"
    /\ inflight' = inflight - 1
    /\ trace' = Append(trace, [op |-> "failed"])
    /\ Return(Returned(<<>>, "TransportError", 0, NoBody))
    /\ UNCHANGED <<attempt, sleeping, urlOK>>
    /\ UNCHANGED detectVars
    /\ UNCHANGED diffVars
    /\ UNCHANGED promptVars
    /\ UNCHANGED openVars
    /\ UNCHANGED stagedVars
    /\ UNCHANGED loaderVars
    /\ UNCHANGED runVars

\* c.client.Do returns resp, and the rest of the loop body handles it
ReceiveResponse(resp) ==
    /\ pc = "wait"
    /\ inflight' = inflight - 1
    /\ trace' = Append(trace, [op |-> "recv", status |-> resp.status, body |-> resp.body])
    /\ IF IsRateLimited(resp.status)
       THEN IF LastAttempt(attempt)
            THEN /\ Return(Returned(<<>>, "RateLimitExceeded", resp.status, resp.body))
                 /\ UNCHANGED attempt
            ELSE /\ attempt' = attempt + 1
                 /\ pc' = "top"
                 /\ UNCHANGED <<result, outcomes>>
       ELSE /\ UNCHANGED attempt
            /\ IF ~IsOK(resp.status)
               THEN Return(Returned(<<>>, "RemoteError", resp.status, resp.body))
               ELSE IF ~resp.body.json
               THEN Return(Returned(<<>>, "DecodeError", resp.status, NoBody))
               ELSE IF IsEmptyResponse(resp.body.text)
               THEN Return(Returned(<<>>, "EmptyResponse", resp.status, NoBody))
               ELSE Return(Returned(TrimSpace(resp.body.text), "nil", resp.status, NoBody))
    /\ UNCHANGED <<sleeping, urlOK>>
    /\ UNCHANGED detectVars
    /\ UNCHANGED diffVars
    /\ UNCHANGED promptVars
    /\ UNCHANGED openVars
    /\ UNCHANGED stagedVars
    /\ UNCHANGED loaderVars
    /\ UNCHANGED runVars

Receive == \E resp \in Responses : ReceiveResponse(resp)

----------------------------------------------------------------------------
(* What the trace of a call shows *)

Sends == SelectSeq(trace, LAMBDA e : e.op = "send")
Calls == Len(Sends)
Slept == SelectSeq(trace, LAMBDA e : e.op = "slept")
Sleeps == [i \in 1..Len(Slept) |-> Slept[i].delay]
Received == SelectSeq(trace, LAMBDA e : e.op = "recv")

----------------------------------------------------------------------------
(* DetectGitState *)

StateNormal == "normal"
StateMerge == "merge"
StateRebase == "rebase"
StateCherryPick == "cherry-pick"
GitStateTypes == {StateNormal, StateMerge, StateRebase, StateCherryPick}

\* what os.Stat finds at a path
Kinds == {"absent", "file", "dir"}

NoFile == [exists |-> FALSE, data |-> <<>>]
File(data) == [exists |-> TRUE, data |-> data]

\* _, err := os.Stat(path); err == nil
StatOK(kind) == kind # "absent"

\* info, err := os.Stat(path); err == nil && info.IsDir()
StatDir(kind) == kind = "dir"

\* a line is dropped only when it is empty or starts with # (mutant)
KeepLine_Untrimmed(line) == ~HasPrefix(line, <<"#">>) /\ line # <<>>

\* !strings.HasPrefix(trimmed, "#") && trimmed != ""
KeepLine(line) ==
    LET trimmed == TrimSpace(line)
    IN  ~HasPrefix(trimmed, <<"#">>) /\ trimmed # <<>>

filterCommentLines(message) ==
    JoinLines(SelectSeq(SplitLines(message), KeepLine))

\* the message file is filtered as it is, without trimming it first (mutant)
ReadMessage_NoTrim(file) ==
    IF file.exists THEN filterCommentLines(file.data) ELSE <<>>

\* if content, err := os.ReadFile(path); err == nil {
\*     state.OriginalMessage = filterCommentLines(strings.TrimSpace(string(content))) }
ReadMessage(file) ==
    IF file.exists THEN filterCommentLines(TrimSpace(file.data)) ELSE <<>>

RebasePrefix ==
    <<"R", "e", "b", "a", "s", "e", " ", "b", "r", "a", "n", "c", "h", ":", " ">>

\* the branch's short name, without refs/heads/ (mutant)
ReadHeadName_ShortName(file) ==
    IF ~file.exists THEN <<>>
    ELSE LET name == TrimSpace(file.data)
         IN  RebasePrefix \o (IF HasPrefix(name, <<"r", "e", "f", "s", "/">>)
                              THEN SubSeq(name, 12, Len(name)) ELSE name)

\* fmt.Sprintf("Rebase branch: %s", strings.TrimSpace(string(content)))
ReadHeadName(file) ==
    IF file.exists THEN RebasePrefix \o TrimSpace(file.data) ELSE <<>>

GitState(type, msg, conflict) ==
    [Type |-> type, OriginalMessage |-> msg, ConflictMode |-> conflict]

NilState == GitState("nil", <<>>, FALSE)

\* a merge leaves ConflictMode unset (mutant)
MergeState_NoConflict(f) == GitState(StateMerge, ReadMessage(f.mergeMsg), FALSE)

\* the state returned when MERGE_HEAD exists
MergeState(f) == GitState(StateMerge, ReadMessage(f.mergeMsg), TRUE)

\* the cherry-pick message read from MERGE_MSG (mutant)
CherryPickState_MergeMsg(f) == GitState(StateCherryPick, ReadMessage(f.mergeMsg), TRUE)

\* the state returned when CHERRY_PICK_HEAD exists
CherryPickState(f) == GitState(StateCherryPick, ReadMessage(f.commitEditMsg), TRUE)

RebaseState(headName) == GitState(StateRebase, ReadHeadName(headName), TRUE)

\* the rebase directories looked at before the head markers (mutant)
DetectGitState_RebaseFirst(f) ==
    IF ~f.gitDir
    THEN [err |-> "NotARepository", state |-> NilState]
    ELSE IF StatDir(f.rebaseMerge)
    THEN [err |-> "nil", state |-> RebaseState(f.headNameMerge)]
    ELSE IF StatDir(f.rebaseApply)
    THEN [err |-> "nil", state |-> RebaseState(f.headNameApply)]
    ELSE IF StatOK(f.mergeHead)
    THEN [err |-> "nil", state |-> MergeState(f)]
    ELSE IF StatOK(f.cherryPickHead)
    THEN [err |-> "nil", state |-> CherryPickState(f)]
    ELSE [err |-> "nil", state |-> GitState(StateNormal, <<>>, FALSE)]

\* the check of .git left out (mutant)
DetectGitState_NoGitCheck(f) ==
    IF StatOK(f.mergeHead)
    THEN [err |-> "nil", state |-> MergeState(f)]
    ELSE IF StatOK(f.cherryPickHead)
    THEN [err |-> "nil", state |-> CherryPickState(f)]
    ELSE IF StatDir(f.rebaseMerge)
    THEN [err |-> "nil", state |-> RebaseState(f.headNameMerge)]
    ELSE IF StatDir(f.rebaseApply)
    THEN [err |-> "nil", state |-> RebaseState(f.headNameApply)]
    ELSE [err |-> "nil", state |-> GitState(StateNormal, <<>>, FALSE)]

DetectGitState(f) ==
    IF ~f.gitDir
    THEN [err |-> "NotARepository", state |-> NilState]
    ELSE IF StatOK(f.mergeHead)
    THEN [err |-> "nil", state |-> MergeState(f)]
    ELSE IF StatOK(f.cherryPickHead)
    THEN [err |-> "nil", state |-> CherryPickState(f)]
    ELSE IF StatDir(f.rebaseMerge)
    THEN [err |-> "nil", state |-> RebaseState(f.headNameMerge)]
    ELSE IF StatDir(f.rebaseApply)
    THEN [err |-> "nil", state |-> RebaseState(f.headNameApply)]
    ELSE [err |-> "nil", state |-> GitState(StateNormal, <<>>, FALSE)]

NotCalled == [called |-> FALSE, err |-> "nil", state |-> NilState]

\* a call of DetectGitState(repoRoot)
CallDetect ==
    /\ ~ret.called
    /\ ret' = [called |-> TRUE] @@ DetectGitState(fs)
    /\ UNCHANGED fs
    /\ UNCHANGED clientVars
    /\ UNCHANGED diffVars
    /\ UNCHANGED promptVars
    /\ UNCHANGED openVars
    /\ UNCHANGED stagedVars
    /\ UNCHANGED loaderVars
    /\ UNCHANGED runVars

----------------------------------------------------------------------------
(* The repositories DetectGitState is applied to *)

EmptyFs ==
    [gitDir |-> FALSE, mergeHead |-> "absent", cherryPickHead |-> "absent",
     rebaseMerge |-> "absent", rebaseApply |-> "absent",
     mergeMsg |-> NoFile, commitEditMsg |-> NoFile,
     headNameMerge |-> NoFile, headNameApply |-> NoFile,
     rootMarkers |-> FALSE]

\* no .git under repoRoot; MERGE_HEAD and rebase-merge may lie in repoRoot itself
NoGitFs == {[EmptyFs EXCEPT !.rootMarkers = m] : m \in BOOLEAN}

\* a few message files, with and without comment and blank lines
SomeMessages ==
    {NoFile, File(<<"a">>), File(<<"#", "a", "\n", "b">>)}

\* the other message file, which the state does not read
OtherMessages == {NoFile, File(<<"c">>)}

RefsHeads == <<"r", "e", "f", "s", "/", "h", "e", "a", "d", "s", "/">>

SomeHeadNames ==
    {NoFile, File(RefsHeads \o <<"x", "\n">>), File(<<" ", "y">>)}

\* every combination of the four markers, with a few contents
MarkerFs ==
    {f \in [gitDir : {TRUE}, mergeHead : Kinds, cherryPickHead : Kinds,
            rebaseMerge : Kinds, rebaseApply : Kinds,
            mergeMsg : SomeMessages, commitEditMsg : SomeMessages,
            headNameMerge : SomeHeadNames, headNameApply : SomeHeadNames,
            rootMarkers : BOOLEAN] :
        /\ f.headNameMerge.exists => f.rebaseMerge = "dir"
        /\ f.headNameApply.exists => f.rebaseApply = "dir"}

\* the example of the comment stripping: "a\n# c\n\nb"
ExampleMessage == <<"a", "\n", "#", " ", "c", "\n", "\n", "b">>

MessageAlphabet == {"a", "#", " ", "\n"}
Messages == StringsUpTo(MessageAlphabet, MaxMsgLen) \cup {ExampleMessage}
MessageFiles == {NoFile} \cup {File(m) : m \in Messages}

\* a merge or a cherry-pick in progress (or neither), with every short content
\* in one of the two message files
MessageFs ==
    {f \in [gitDir : {TRUE}, mergeHead : {"absent", "file"}, cherryPickHead : {"absent", "file"},
            rebaseMerge : {"absent"}, rebaseApply : {"absent"},
            mergeMsg : MessageFiles \cup OtherMessages,
            commitEditMsg : MessageFiles \cup OtherMessages,
            headNameMerge : {NoFile}, headNameApply : {NoFile},
            rootMarkers : {FALSE}] :
        f.mergeMsg \in OtherMessages \/ f.commitEditMsg \in OtherMessages}

----------------------------------------------------------------------------
(* ClientImpl.GetStagedDiff (go-git) *)

\* the staging codes of a file's status
Unmodified == "Unmodified"
Untracked == "Untracked"
Modified == "Modified"
Added == "Added"
Deleted == "Deleted"
Renamed == "Renamed"
Copied == "Copied"
StagingCodes == {Unmodified, Untracked, Modified, Added, Deleted, Renamed, Copied}

DiffLimit == 10000
TruncatedSuffix == <<"\n", ".", ".", ".", "[", "T", "R", "U", "N", "C", "A", "T", "E", "D", "]">>

\* a two-byte character, and the byte that continues it
TwoByteChar == <<"C3", "A9">>
IsContinuation(b) == b = "A9"

\* every order in which range may visit the keys of a map
Orders(keys) ==
    {o \in [1..Cardinality(keys) -> keys] : \A i, j \in DOMAIN o : o[i] = o[j] => i = j}

\* for _, line := range lines { WriteString(prefix + line + "\n") }
RECURSIVE PrefixedLines(_, _)
PrefixedLines(prefix, lines) ==
    IF lines = <<>> THEN <<>>
    ELSE <<prefix>> \o Head(lines) \o <<"\n">> \o PrefixedLines(prefix, Tail(lines))

\* strings.Split(string(content), "\n")
ContentLines(content) == SplitLines(content)

\* os.ReadFile(filepath.Join(wd, filePath)), with wd, _ := os.Getwd(): the path,
\* which is relative to the repository root, is looked up from the working
\* directory of the process
ReadWorkFile(r, path) == IF r.cwd = "root" THEN r.work[path] ELSE r.subwork[path]

\* headTree is set only when HEAD, its commit and its tree were read
HasHeadTree(r) == r.head = "ok"

\* headTree.FindEntry, repo.BlobObject, blob.Reader, reader.Read
ReadHeadBlob(r, path) == IF HasHeadTree(r) THEN r.tree[path] ELSE NoFile

AddedBlock(r, path) ==
    <<"d", "i", "f", "f", " ", "-", "-", "g", "i", "t", " ", "a", "/">> \o <<path>> \o <<" ", "b", "/">> \o <<path>> \o <<"\n">>
    \o <<"n", "e", "w", " ", "f", "i", "l", "e", " ", "m", "o", "d", "e", " ", "1", "0", "0", "6", "4", "4", "\n">>
    \o <<"i", "n", "d", "e", "x", " ", "0", "0", "0", "0", "0", "0", "0", ".", ".">> \o r.status[path].extra \o <<"\n">>
    \o <<"-", "-", "-", " ", "/", "d", "e", "v", "/", "n", "u", "l", "l", "\n">>
    \o <<"+", "+", "+", " ", "b", "/">> \o <<path>> \o <<"\n">>
    \o (IF ReadWorkFile(r, path).exists
        THEN PrefixedLines("+", ContentLines(ReadWorkFile(r, path).data))
        ELSE <<>>)

DeletedBlock(r, path) ==
    <<"d", "i", "f", "f", " ", "-", "-", "g", "i", "t", " ", "a", "/">> \o <<path>> \o <<" ", "b", "/">> \o <<path>> \o <<"\n">>
    \o <<"d", "e", "l", "e", "t", "e", "d", " ", "f", "i", "l", "e", " ", "m", "o", "d", "e", " ", "1", "0", "0", "6", "4", "4", "\n">>
    \o <<"i", "n", "d", "e", "x", " ">> \o r.status[path].extra \o <<".", ".", "0", "0", "0", "0", "0", "0", "0", "\n">>
    \o <<"-", "-", "-", " ", "a", "/">> \o <<path>> \o <<"\n">>
    \o <<"+", "+", "+", " ", "/", "d", "e", "v", "/", "n", "u", "l", "l", "\n">>
    \o (IF ReadHeadBlob(r, path).exists
        THEN PrefixedLines("-", ContentLines(ReadHeadBlob(r, path).data))
        ELSE <<>>)

\* oldContent stays nil and newContent becomes []byte{} when the read fails
ModifiedBlock(r, path) ==
    <<"d", "i", "f", "f", " ", "-", "-", "g", "i", "t", " ", "a", "/">> \o <<path>> \o <<" ", "b", "/">> \o <<path>> \o <<"\n">>
    \o <<"i", "n", "d", "e", "x", " ">> \o r.status[path].extra \o <<".", ".">> \o r.status[path].extra
    \o <<" ", "1", "0", "0", "6", "4", "4", "\n">>
    \o <<"-", "-", "-", " ", "a", "/">> \o <<path>> \o <<"\n">>
    \o <<"+", "+", "+", " ", "b", "/">> \o <<path>> \o <<"\n">>
    \o PrefixedLines("-", ContentLines(ReadHeadBlob(r, path).data))
    \o PrefixedLines("+", ContentLines(ReadWorkFile(r, path).data))

RenamedBlock(r, path) ==
    <<"d", "i", "f", "f", " ", "-", "-", "g", "i", "t", " ", "a", "/">> \o r.status[path].extra \o <<" ", "b", "/">> \o <<path>> \o <<"\n">>
    \o <<"r", "e", "n", "a", "m", "e", " ", "f", "r", "o", "m", " ">> \o r.status[path].extra \o <<"\n">>
    \o <<"r", "e", "n", "a", "m", "e", " ", "t", "o", " ">> \o <<path>> \o <<"\n">>

\* the body of the loop over status: the continue, then the switch
FileBlock(r, path) ==
    LET staging == r.status[path].staging
    IN  IF staging = Unmodified \/ staging = Untracked THEN <<>>
        ELSE IF staging = Added THEN AddedBlock(r, path)
        ELSE IF staging = Deleted THEN DeletedBlock(r, path)
        ELSE IF staging = Modified THEN ModifiedBlock(r, path)
        ELSE IF staging = Renamed THEN RenamedBlock(r, path)
        ELSE <<>>

\* what diffBuilder holds after the loop visited the files in this order
RECURSIVE Blocks(_, _)
Blocks(r, order) ==
    IF order = <<>> THEN <<>>
    ELSE FileBlock(r, Head(order)) \o Blocks(r, Tail(order))

\* a text of exactly the limit is cut too (mutant)
TooLong_AtLimit(diff) == Len(diff) >= DiffLimit

\* len(diff) > 10000
TooLong(diff) == Len(diff) > DiffLimit

\* diff[:10000] + "\n...[TRUNCATED]"
Truncate(diff) ==
    IF TooLong(diff) THEN SubSeq(diff, 1, DiffLimit) \o TruncatedSuffix ELSE diff

DiffReturn(text, err) == [text |-> text, err |-> err]

\* an unreadable HEAD commit is fatal too (mutant)
HeadError_CommitToo(r) ==
    IF r.head = "referr" THEN "failed to get HEAD"
    ELSE IF r.head \in {"treeerr", "commiterr"} THEN "failed to get HEAD tree"
    ELSE "nil"

\* repo.Head() fails with something other than ErrReferenceNotFound, or
\* headCommit.Tree() fails; a failing repo.CommitObject is passed over
HeadError(r) ==
    IF r.head = "referr" THEN "failed to get HEAD"
    ELSE IF r.head = "treeerr" THEN "failed to get HEAD tree"
    ELSE "nil"

GetStagedDiff(r, order) ==
    IF r.scan = "openerr" THEN DiffReturn(<<>>, "failed to open repository")
    ELSE IF r.scan = "worktreeerr" THEN DiffReturn(<<>>, "failed to get worktree")
    ELSE IF r.scan = "statuserr" THEN DiffReturn(<<>>, "failed to get status")
    ELSE IF HeadError(r) # "nil" THEN DiffReturn(<<>>, HeadError(r))
    ELSE DiffReturn(Truncate(Blocks(r, order)), "nil")

\* how many times GetStagedDiff is called on a repository
MaxCalls == 2

\* a call of GetStagedDiff; the order of a range over the status map is any,
\* and is kept with what the call returned
CallGetStagedDiff ==
    /\ Len(diffCalls) < MaxCalls
    /\ \E order \in Orders(DOMAIN repo.status) :
          diffCalls' = Append(diffCalls, [order |-> order, wd |-> repo.cwd,
                                          ret |-> GetStagedDiff(repo, order)])
    /\ UNCHANGED repo
    /\ UNCHANGED clientVars
    /\ UNCHANGED detectVars
    /\ UNCHANGED promptVars
    /\ UNCHANGED openVars
    /\ UNCHANGED stagedVars
    /\ UNCHANGED loaderVars
    /\ UNCHANGED runVars

----------------------------------------------------------------------------
(* The repositories GetStagedDiff is applied to *)

\* longest file content enumerated byte by byte
MaxContentLen == 3
\* how far below and above the limit the long texts reach
MaxOver == 3

Contents == StringsUpTo({"a", "\n"}, MaxContentLen)
ContentFiles == {NoFile} \cup {File(c) : c \in Contents}
FewContents == {NoFile, File(<<>>), File(<<"a", "\n">>)}

Scans == {"ok", "openerr", "worktreeerr", "statuserr"}
Heads == {"ok", "notfound", "referr", "commiterr", "treeerr"}

\* no file of the status has a namesake below the subdirectory
NoSubFiles == [p \in {"f", "g"} |-> NoFile]

\* the status of the file f: go-git sets Extra to the old name of a rename
StatusOf(staging) ==
    [staging |-> staging, extra |-> IF staging \in {Renamed, Copied} THEN <<"o">> ELSE <<>>]

\* the file f with every status and content; the file g not there or added
SmallRepos ==
    {r \in [scan : Scans, head : Heads,
            status : {[p \in {"f"} |-> StatusOf(st)] : st \in StagingCodes}
                     \cup {[p \in {"f", "g"} |-> StatusOf(IF p = "f" THEN st ELSE Added)] :
                              st \in StagingCodes},
            tree : {[p \in {"f", "g"} |-> IF p = "f" THEN c ELSE NoFile] : c \in ContentFiles},
            work : {[p \in {"f", "g"} |-> IF p = "f" THEN c ELSE File(<<"c">>)] :
                       c \in ContentFiles},
            cwd : {"root"}, subwork : {NoSubFiles}] :
        /\ r.scan # "ok" => r.head = "ok"
        /\ r.head # "ok" => r.tree["f"] = NoFile
        /\ r.status["f"].staging \in {Added, Untracked} => r.tree["f"] = NoFile}

\* n bytes without a newline, the last m characters of two bytes each
RECURSIVE TwoByteChars(_)
TwoByteChars(m) == IF m = 0 THEN <<>> ELSE TwoByteChar \o TwoByteChars(m - 1)
LongLine(n, m) == [i \in 1..(n - 2 * m) |-> "a"] \o TwoByteChars(m)

\* the bytes of the block of an added file f around its one line
AddedOverhead == Len(AddedBlock([status |-> [p \in {"f"} |-> StatusOf(Added)],
                                 work |-> [p \in {"f"} |-> File(<<>>)],
                                 cwd |-> "root"], "f"))

\* an added file f whose block is within MaxOver bytes of the limit
LongRepos ==
    {[scan |-> "ok", head |-> h,
      status |-> [p \in keys |-> StatusOf(Added)],
      tree |-> [p \in {"f", "g"} |-> NoFile],
      work |-> [p \in {"f", "g"} |->
                  IF p = "f" THEN File(LongLine(DiffLimit - AddedOverhead + d, m))
                  ELSE File(<<"c">>)],
      cwd |-> "root", subwork |-> NoSubFiles] :
        h \in {"ok", "notfound"}, keys \in {{"f"}, {"f", "g"}},
        d \in (0 - MaxOver)..MaxOver, m \in 0..2}

\* the process in the repository root or in the directory below it, where a
\* file of the same relative path may lie
SubdirRepos ==
    {r \in [scan : {"ok"}, head : {"ok", "notfound"},
            status : {[p \in {"f"} |-> StatusOf(st)] :
                         st \in {Added, Deleted, Modified, Renamed}},
            tree : {[p \in {"f", "g"} |-> IF p = "f" THEN c ELSE NoFile] : c \in FewContents},
            work : {[p \in {"f", "g"} |-> IF p = "f" THEN c ELSE NoFile] : c \in FewContents},
            cwd : {"root", "sub"},
            subwork : {[p \in {"f", "g"} |-> IF p = "f" THEN c ELSE NoFile] :
                          c \in {NoFile, File(<<"b">>)}}] :
        /\ r.head # "ok" => r.tree["f"] = NoFile
        /\ r.status["f"].staging = Added => r.tree["f"] = NoFile}

\* os.Chdir between two calls, from the root to the directory below or back
ChdirRepo ==
    /\ repo' = [repo EXCEPT !.cwd = IF @ = "root" THEN "sub" ELSE "root"]
    /\ UNCHANGED diffCalls
    /\ UNCHANGED clientVars
    /\ UNCHANGED detectVars
    /\ UNCHANGED promptVars
    /\ UNCHANGED openVars
    /\ UNCHANGED stagedVars
    /\ UNCHANGED loaderVars
    /\ UNCHANGED runVars

NoRepo ==
    [scan |-> "ok", head |-> "notfound", status |-> [p \in {"f"} |-> StatusOf(Unmodified)],
     tree |-> [p \in {"f", "g"} |-> NoFile], work |-> [p \in {"f", "g"} |-> NoFile],
     cwd |-> "root", subwork |-> NoSubFiles]

DiffIdle ==
    /\ repo = NoRepo
    /\ diffCalls = <<>>

----------------------------------------------------------------------------
(* OllamaClient.buildPrompt; characters outside ASCII are written as their bytes *)

RolePreamble ==
    <<"Y", "o", "u", " ", "a", "r", "e", " ", "a", "n", " ", "e", "x", "p", "e", "r", "t", " ",
      "D", "e", "v", "O", "p", "s", " ", "e", "n", "g", "i", "n", "e", "e", "r", " ", "s", "p",
      "e", "c", "i", "a", "l", "i", "z", "e", "d", " ", "i", "n", " ", "w", "r", "i", "t", "i",
      "n", "g", " ", "g", "i", "t", " ", "c", "o", "m", "m", "i", "t", " ", "m", "e", "s", "s",
      "a", "g", "e", "s", ".", "\n", "\n">>

SpecialHeader ==
    <<"=", "=", "=", " ", "S", "P", "E", "C", "I", "A", "L", " ", "G", "I", "T", " ", "S", "T",
      "A", "T", "E", " ", "C", "O", "N", "T", "E", "X", "T", " ", "=", "=", "=", "\n", "\n">>

SpecialFooter ==
    <<"=", "=", "=", "=", "=", "=", "=", "=", "=", "=", "=", "=", "=", "=", "=", "=", "=", "=",
      "=", "=", "=", "=", "=", "=", "=", "=", "=", "=", "=", "=", "=", "=", "=", "\n", "\n">>

\* the line is written whatever the message is (mutant)
OriginalLine_Always(before, msg, after) == before \o msg \o after

\* if gitState.OriginalMessage != "" { WriteString(fmt.Sprintf(format, msg)) }
OriginalLine(before, msg, after) == IF msg # <<>> THEN before \o msg \o after ELSE <<>>

\* case git.StateMerge
MergeBlock(msg) ==
    <<"C", "O", "N", "T", "E", "X", "T", ":", " ", "Y", "o", "u", " ", "a", "r", "e", " ", "c",
      "o", "m", "p", "l", "e", "t", "i", "n", "g", " ", "a", " ", "M", "E", "R", "G", "E", " ",
      "C", "O", "N", "F", "L", "I", "C", "T", " ", "r", "e", "s", "o", "l", "u", "t", "i", "o",
      "n", ".", "\n">>
    \o OriginalLine(<<"O", "r", "i", "g", "i", "n", "a", "l", " ", "m", "e", "r", "g", "e", " ", "i", "n", "t",
          "e", "n", "t", ":", " ", "\"">>,
                    msg, <<"\"", "\n">>)
    \o <<"\n", "I", "M", "P", "O", "R", "T", "A", "N", "T", " ", "I", "N", "S", "T", "R", "U", "C",
         "T", "I", "O", "N", "S", ":", "\n">>
    \o <<"1", ".", " ", "Y", "o", "u", " ", "M", "U", "S", "T", " ", "u", "s", "e", " ", "t", "h",
         "e", " ", "f", "o", "l", "l", "o", "w", "i", "n", "g", " ", "E", "X", "A", "C", "T",
         " ", "f", "o", "r", "m", "a", "t", " ", "f", "o", "r", " ", "t", "h", "e", " ", "f",
         "i", "r", "s", "t", " ", "l", "i", "n", "e", ":", "\n">>
    \o <<" ", " ", " ", "<", "t", "y", "p", "e", ">", "(", "m", "e", "r", "g", "e", ")", ":", " ",
         "M", "e", "r", "g", "e", "d", " ", "<", "S", "o", "u", "r", "c", "e", "_", "B", "r",
         "a", "n", "c", "h", ">", " ", "i", "n", "t", "o", " ", "<", "T", "a", "r", "g", "e",
         "t", "_", "B", "r", "a", "n", "c", "h", ">", "\n">>
    \o <<"2", ".", " ", "A", "n", "a", "l", "y", "z", "e", " ", "t", "h", "e", " ", "d", "i", "f",
         "f", " ", "a", "n", "d", " ", "c", "h", "o", "o", "s", "e", " ", "t", "h", "e", " ",
         "a", "p", "p", "r", "o", "p", "r", "i", "a", "t", "e", " ", "<", "t", "y", "p", "e",
         ">", " ", "b", "a", "s", "e", "d", " ", "o", "n", " ", "t", "h", "e", " ", "c", "h",
         "a", "n", "g", "e", "s", ":", "\n">>
    \o <<" ", " ", " ", "-", " ", "f", "e", "a", "t", ":", " ", "i", "f", " ", "a", "d", "d", "i",
         "n", "g", " ", "n", "e", "w", " ", "f", "e", "a", "t", "u", "r", "e", "s", " ", "o",
         "r", " ", "c", "a", "p", "a", "b", "i", "l", "i", "t", "i", "e", "s", "\n">>
    \o <<" ", " ", " ", "-", " ", "f", "i", "x", ":", " ", "i", "f", " ", "f", "i", "x", "i", "n",
         "g", " ", "b", "u", "g", "s", " ", "o", "r", " ", "i", "s", "s", "u", "e", "s", "\n">>
    \o <<" ", " ", " ", "-", " ", "r", "e", "f", "a", "c", "t", "o", "r", ":", " ", "i", "f", " ",
         "r", "e", "s", "t", "r", "u", "c", "t", "u", "r", "i", "n", "g", " ", "c", "o", "d",
         "e", " ", "w", "i", "t", "h", "o", "u", "t", " ", "c", "h", "a", "n", "g", "i", "n",
         "g", " ", "f", "u", "n", "c", "t", "i", "o", "n", "a", "l", "i", "t", "y", "\n">>
    \o <<" ", " ", " ", "-", " ", "c", "h", "o", "r", "e", ":", " ", "i", "f", " ", "u", "p", "d",
         "a", "t", "i", "n", "g", " ", "d", "e", "p", "e", "n", "d", "e", "n", "c", "i", "e",
         "s", ",", " ", "c", "o", "n", "f", "i", "g", "s", ",", " ", "o", "r", " ", "m", "a",
         "i", "n", "t", "e", "n", "a", "n", "c", "e", " ", "t", "a", "s", "k", "s", "\n">>
    \o <<" ", " ", " ", "-", " ", "d", "o", "c", "s", ":", " ", "i", "f", " ", "p", "r", "i", "m",
         "a", "r", "i", "l", "y", " ", "d", "o", "c", "u", "m", "e", "n", "t", "a", "t", "i",
         "o", "n", " ", "c", "h", "a", "n", "g", "e", "s", "\n">>
    \o <<"3", ".", " ", "E", "x", "t", "r", "a", "c", "t", " ", "<", "S", "o", "u", "r", "c", "e",
         "_", "B", "r", "a", "n", "c", "h", ">", " ", "f", "r", "o", "m", " ", "t", "h", "e",
         " ", "O", "r", "i", "g", "i", "n", "a", "l", " ", "m", "e", "r", "g", "e", " ", "i",
         "n", "t", "e", "n", "t", " ", "(", "e", ".", "g", ".", " ", "'", "M", "e", "r", "g",
         "e", " ", "b", "r", "a", "n", "c", "h", " ", "f", "e", "a", "t", "u", "r", "e", "-",
         "x", "'", " ", "-", ">", " ", "f", "e", "a", "t", "u", "r", "e", "-", "x", ")", ".",
         "\n">>
    \o <<"4", ".", " ", "I", "f", " ", "<", "T", "a", "r", "g", "e", "t", "_", "B", "r", "a", "n",
         "c", "h", ">", " ", "i", "s", " ", "u", "n", "k", "n", "o", "w", "n", ",", " ", "u",
         "s", "e", " ", "'", "m", "a", "i", "n", "'", " ", "o", "r", " ", "i", "n", "f", "e",
         "r", " ", "f", "r", "o", "m", " ", "t", "h", "e", " ", "d", "i", "f", "f", "/", "c",
         "o", "n", "t", "e", "x", "t", ".", "\n">>
    \o <<"5", ".", " ", "A", "f", "t", "e", "r", " ", "t", "h", "e", " ", "f", "i", "r", "s", "t",
         " ", "l", "i", "n", "e", ",", " ", "l", "e", "a", "v", "e", " ", "a", " ", "b", "l",
         "a", "n", "k", " ", "l", "i", "n", "e", " ", "a", "n", "d", " ", "t", "h", "e", "n",
         " ", "p", "r", "o", "v", "i", "d", "e", " ", "a", " ", "d", "e", "t", "a", "i", "l",
         "e", "d", " ", "d", "e", "s", "c", "r", "i", "p", "t", "i", "o", "n", " ", "o", "f",
         " ", "w", "h", "a", "t", " ", "c", "o", "d", "e", " ", "c", "h", "a", "n", "g", "e",
         "s", " ", "w", "e", "r", "e", " ", "m", "e", "r", "g", "e", "d", ".", "\n">>
    \o <<"6", ".", " ", "E", "x", "p", "l", "a", "i", "n", " ", "H", "O", "W", " ", "c", "o", "n",
         "f", "l", "i", "c", "t", "s", " ", "w", "e", "r", "e", " ", "r", "e", "s", "o", "l",
         "v", "e", "d", " ", "i", "f", " ", "a", "p", "p", "l", "i", "c", "a", "b", "l", "e",
         ".", "\n">>
    \o <<"7", ".", " ", "E", "x", "a", "m", "p", "l", "e", " ", "F", "i", "r", "s", "t", " ", "L",
         "i", "n", "e", ":", " ", "f", "e", "a", "t", "(", "m", "e", "r", "g", "e", ")", ":",
         " ", "M", "e", "r", "g", "e", "d", " ", "f", "e", "a", "t", "u", "r", "e", "-", "a",
         "u", "t", "h", " ", "i", "n", "t", "o", " ", "m", "a", "i", "n", "\n", "\n">>

\* case git.StateRebase
RebaseBlock(msg) ==
    <<"C", "O", "N", "T", "E", "X", "T", ":", " ", "Y", "o", "u", " ", "a", "r", "e", " ", "c",
      "o", "m", "p", "l", "e", "t", "i", "n", "g", " ", "a", " ", "R", "E", "B", "A", "S", "E",
      " ", "c", "o", "n", "f", "l", "i", "c", "t", " ", "r", "e", "s", "o", "l", "u", "t", "i",
      "o", "n", ".", "\n">>
    \o OriginalLine(<<"R", "e", "b", "a", "s", "e", " ", "c", "o", "n", "t", "e", "x", "t", ":", " ">>,
                    msg, <<"\n">>)
    \o <<"\n", "I", "M", "P", "O", "R", "T", "A", "N", "T", " ", "I", "N", "S", "T", "R", "U", "C",
         "T", "I", "O", "N", "S", ":", "\n">>
    \o <<"1", ".", " ", "Y", "o", "u", " ", "M", "U", "S", "T", " ", "u", "s", "e", " ", "t", "h",
         "e", " ", "f", "o", "l", "l", "o", "w", "i", "n", "g", " ", "E", "X", "A", "C", "T",
         " ", "f", "o", "r", "m", "a", "t", " ", "f", "o", "r", " ", "t", "h", "e", " ", "f",
         "i", "r", "s", "t", " ", "l", "i", "n", "e", ":", "\n">>
    \o <<" ", " ", " ", "<", "t", "y", "p", "e", ">", "(", "r", "e", "b", "a", "s", "e", ")", ":",
         " ", "R", "e", "b", "a", "s", "e", "d", " ", "<", "B", "r", "a", "n", "c", "h", "_",
         "N", "a", "m", "e", ">", " ", "o", "n", "t", "o", " ", "<", "T", "a", "r", "g", "e",
         "t", "_", "B", "r", "a", "n", "c", "h", ">", "\n">>
    \o <<"2", ".", " ", "A", "n", "a", "l", "y", "z", "e", " ", "t", "h", "e", " ", "d", "i", "f",
         "f", " ", "a", "n", "d", " ", "c", "h", "o", "o", "s", "e", " ", "t", "h", "e", " ",
         "a", "p", "p", "r", "o", "p", "r", "i", "a", "t", "e", " ", "<", "t", "y", "p", "e",
         ">", " ", "b", "a", "s", "e", "d", " ", "o", "n", " ", "t", "h", "e", " ", "c", "h",
         "a", "n", "g", "e", "s", ":", "\n">>
    \o <<" ", " ", " ", "-", " ", "f", "e", "a", "t", ":", " ", "i", "f", " ", "a", "d", "d", "i",
         "n", "g", " ", "n", "e", "w", " ", "f", "e", "a", "t", "u", "r", "e", "s", " ", "o",
         "r", " ", "c", "a", "p", "a", "b", "i", "l", "i", "t", "i", "e", "s", "\n">>
    \o <<" ", " ", " ", "-", " ", "f", "i", "x", ":", " ", "i", "f", " ", "f", "i", "x", "i", "n",
         "g", " ", "b", "u", "g", "s", " ", "o", "r", " ", "i", "s", "s", "u", "e", "s", "\n">>
    \o <<" ", " ", " ", "-", " ", "r", "e", "f", "a", "c", "t", "o", "r", ":", " ", "i", "f", " ",
         "r", "e", "s", "t", "r", "u", "c", "t", "u", "r", "i", "n", "g", " ", "c", "o", "d",
         "e", " ", "w", "i", "t", "h", "o", "u", "t", " ", "c", "h", "a", "n", "g", "i", "n",
         "g", " ", "f", "u", "n", "c", "t", "i", "o", "n", "a", "l", "i", "t", "y", "\n">>
    \o <<" ", " ", " ", "-", " ", "c", "h", "o", "r", "e", ":", " ", "i", "f", " ", "u", "p", "d",
         "a", "t", "i", "n", "g", " ", "d", "e", "p", "e", "n", "d", "e", "n", "c", "i", "e",
         "s", ",", " ", "c", "o", "n", "f", "i", "g", "s", ",", " ", "o", "r", " ", "m", "a",
         "i", "n", "t", "e", "n", "a", "n", "c", "e", " ", "t", "a", "s", "k", "s", "\n">>
    \o <<" ", " ", " ", "-", " ", "d", "o", "c", "s", ":", " ", "i", "f", " ", "p", "r", "i", "m",
         "a", "r", "i", "l", "y", " ", "d", "o", "c", "u", "m", "e", "n", "t", "a", "t", "i",
         "o", "n", " ", "c", "h", "a", "n", "g", "e", "s", "\n">>
    \o <<"3", ".", " ", "E", "x", "t", "r", "a", "c", "t", " ", "<", "B", "r", "a", "n", "c", "h",
         "_", "N", "a", "m", "e", ">", " ", "f", "r", "o", "m", " ", "t", "h", "e", " ", "R",
         "e", "b", "a", "s", "e", " ", "c", "o", "n", "t", "e", "x", "t", " ", "i", "f", " ",
         "a", "v", "a", "i", "l", "a", "b", "l", "e", ",", " ", "o", "t", "h", "e", "r", "w",
         "i", "s", "e", " ", "i", "n", "f", "e", "r", " ", "f", "r", "o", "m", " ", "d", "i",
         "f", "f", ".", "\n">>
    \o <<"4", ".", " ", "I", "f", " ", "<", "T", "a", "r", "g", "e", "t", "_", "B", "r", "a", "n",
         "c", "h", ">", " ", "i", "s", " ", "u", "n", "k", "n", "o", "w", "n", ",", " ", "u",
         "s", "e", " ", "'", "m", "a", "i", "n", "'", " ", "o", "r", " ", "i", "n", "f", "e",
         "r", " ", "f", "r", "o", "m", " ", "c", "o", "n", "t", "e", "x", "t", ".", "\n">>
    \o <<"5", ".", " ", "A", "f", "t", "e", "r", " ", "t", "h", "e", " ", "f", "i", "r", "s", "t",
         " ", "l", "i", "n", "e", ",", " ", "l", "e", "a", "v", "e", " ", "a", " ", "b", "l",
         "a", "n", "k", " ", "l", "i", "n", "e", " ", "a", "n", "d", " ", "t", "h", "e", "n",
         " ", "p", "r", "o", "v", "i", "d", "e", " ", "a", " ", "d", "e", "t", "a", "i", "l",
         "e", "d", " ", "d", "e", "s", "c", "r", "i", "p", "t", "i", "o", "n", " ", "o", "f",
         " ", "w", "h", "a", "t", " ", "c", "o", "d", "e", " ", "c", "h", "a", "n", "g", "e",
         "s", " ", "w", "e", "r", "e", " ", "r", "e", "b", "a", "s", "e", "d", ".", "\n">>
    \o <<"6", ".", " ", "E", "x", "p", "l", "a", "i", "n", " ", "H", "O", "W", " ", "c", "o", "n",
         "f", "l", "i", "c", "t", "s", " ", "w", "e", "r", "e", " ", "r", "e", "s", "o", "l",
         "v", "e", "d", " ", "i", "f", " ", "a", "p", "p", "l", "i", "c", "a", "b", "l", "e",
         ".", "\n">>
    \o <<"7", ".", " ", "E", "x", "a", "m", "p", "l", "e", " ", "F", "i", "r", "s", "t", " ", "L",
         "i", "n", "e", ":", " ", "f", "e", "a", "t", "(", "r", "e", "b", "a", "s", "e", ")",
         ":", " ", "R", "e", "b", "a", "s", "e", "d", " ", "f", "e", "a", "t", "u", "r", "e",
         "-", "a", "u", "t", "h", " ", "o", "n", "t", "o", " ", "m", "a", "i", "n", "\n", "\n">>

\* case git.StateCherryPick
CherryPickBlock(msg) ==
    <<"C", "O", "N", "T", "E", "X", "T", ":", " ", "Y", "o", "u", " ", "a", "r", "e", " ", "c",
      "o", "m", "p", "l", "e", "t", "i", "n", "g", " ", "a", " ", "C", "H", "E", "R", "R", "Y",
      "-", "P", "I", "C", "K", " ", "o", "p", "e", "r", "a", "t", "i", "o", "n", ".", "\n">>
    \o OriginalLine(<<"O", "r", "i", "g", "i", "n", "a", "l", " ", "c", "o", "m", "m", "i", "t", ":", " ", "\"">>,
                    msg, <<"\"", "\n">>)
    \o <<"\n", "I", "M", "P", "O", "R", "T", "A", "N", "T", " ", "I", "N", "S", "T", "R", "U", "C",
         "T", "I", "O", "N", "S", ":", "\n">>
    \o <<"1", ".", " ", "Y", "o", "u", " ", "M", "U", "S", "T", " ", "u", "s", "e", " ", "t", "h",
         "e", " ", "f", "o", "l", "l", "o", "w", "i", "n", "g", " ", "E", "X", "A", "C", "T",
         " ", "f", "o", "r", "m", "a", "t", " ", "f", "o", "r", " ", "t", "h", "e", " ", "f",
         "i", "r", "s", "t", " ", "l", "i", "n", "e", ":", "\n">>
    \o <<" ", " ", " ", "<", "t", "y", "p", "e", ">", "(", "c", "h", "e", "r", "r", "y", "-", "p",
         "i", "c", "k", ")", ":", " ", "C", "h", "e", "r", "r", "y", "-", "p", "i", "c", "k",
         "e", "d", " ", "<", "C", "o", "m", "m", "i", "t", "_", "D", "e", "s", "c", "r", "i",
         "p", "t", "i", "o", "n", ">", " ", "i", "n", "t", "o", " ", "<", "T", "a", "r", "g",
         "e", "t", "_", "B", "r", "a", "n", "c", "h", ">", "\n">>
    \o <<" ", " ", " ", "E2", "9A", "A0", "EF", "B8", "8F", " ", " ", "C", "R", "I", "T", "I", "C",
         "A", "L", ":", " ", "T", "h", "e", " ", "s", "c", "o", "p", "e", " ", "M", "U", "S",
         "T", " ", "b", "e", " ", "'", "c", "h", "e", "r", "r", "y", "-", "p", "i", "c", "k",
         "'", ",", " ", "N", "O", "T", " ", "t", "h", "e", " ", "o", "r", "i", "g", "i", "n",
         "a", "l", " ", "s", "c", "o", "p", "e", " ", "f", "r", "o", "m", " ", "t", "h", "e",
         " ", "c", "o", "m", "m", "i", "t", "!", "\n">>
    \o <<"2", ".", " ", "A", "n", "a", "l", "y", "z", "e", " ", "t", "h", "e", " ", "d", "i", "f",
         "f", " ", "a", "n", "d", " ", "c", "h", "o", "o", "s", "e", " ", "t", "h", "e", " ",
         "a", "p", "p", "r", "o", "p", "r", "i", "a", "t", "e", " ", "<", "t", "y", "p", "e",
         ">", " ", "b", "a", "s", "e", "d", " ", "o", "n", " ", "t", "h", "e", " ", "c", "h",
         "a", "n", "g", "e", "s", ":", "\n">>
    \o <<" ", " ", " ", "-", " ", "f", "e", "a", "t", ":", " ", "i", "f", " ", "a", "d", "d", "i",
         "n", "g", " ", "n", "e", "w", " ", "f", "e", "a", "t", "u", "r", "e", "s", " ", "o",
         "r", " ", "c", "a", "p", "a", "b", "i", "l", "i", "t", "i", "e", "s", "\n">>
    \o <<" ", " ", " ", "-", " ", "f", "i", "x", ":", " ", "i", "f", " ", "f", "i", "x", "i", "n",
         "g", " ", "b", "u", "g", "s", " ", "o", "r", " ", "i", "s", "s", "u", "e", "s", "\n">>
    \o <<" ", " ", " ", "-", " ", "r", "e", "f", "a", "c", "t", "o", "r", ":", " ", "i", "f", " ",
         "r", "e", "s", "t", "r", "u", "c", "t", "u", "r", "i", "n", "g", " ", "c", "o", "d",
         "e", " ", "w", "i", "t", "h", "o", "u", "t", " ", "c", "h", "a", "n", "g", "i", "n",
         "g", " ", "f", "u", "n", "c", "t", "i", "o", "n", "a", "l", "i", "t", "y", "\n">>
    \o <<" ", " ", " ", "-", " ", "c", "h", "o", "r", "e", ":", " ", "i", "f", " ", "u", "p", "d",
         "a", "t", "i", "n", "g", " ", "d", "e", "p", "e", "n", "d", "e", "n", "c", "i", "e",
         "s", ",", " ", "c", "o", "n", "f", "i", "g", "s", ",", " ", "o", "r", " ", "m", "a",
         "i", "n", "t", "e", "n", "a", "n", "c", "e", " ", "t", "a", "s", "k", "s", "\n">>
    \o <<" ", " ", " ", "-", " ", "d", "o", "c", "s", ":", " ", "i", "f", " ", "p", "r", "i", "m",
         "a", "r", "i", "l", "y", " ", "d", "o", "c", "u", "m", "e", "n", "t", "a", "t", "i",
         "o", "n", " ", "c", "h", "a", "n", "g", "e", "s", "\n">>
    \o <<"3", ".", " ", "E", "x", "t", "r", "a", "c", "t", " ", "<", "C", "o", "m", "m", "i", "t",
         "_", "D", "e", "s", "c", "r", "i", "p", "t", "i", "o", "n", ">", " ", "f", "r", "o",
         "m", " ", "t", "h", "e", " ", "O", "r", "i", "g", "i", "n", "a", "l", " ", "c", "o",
         "m", "m", "i", "t", " ", "m", "e", "s", "s", "a", "g", "e", " ", "i", "f", " ", "a",
         "v", "a", "i", "l", "a", "b", "l", "e", ".", "\n">>
    \o <<"4", ".", " ", "I", "f", " ", "<", "T", "a", "r", "g", "e", "t", "_", "B", "r", "a", "n",
         "c", "h", ">", " ", "i", "s", " ", "u", "n", "k", "n", "o", "w", "n", ",", " ", "u",
         "s", "e", " ", "'", "m", "a", "i", "n", "'", " ", "o", "r", " ", "i", "n", "f", "e",
         "r", " ", "f", "r", "o", "m", " ", "c", "o", "n", "t", "e", "x", "t", ".", "\n">>
    \o <<"5", ".", " ", "A", "f", "t", "e", "r", " ", "t", "h", "e", " ", "f", "i", "r", "s", "t",
         " ", "l", "i", "n", "e", ",", " ", "l", "e", "a", "v", "e", " ", "a", " ", "b", "l",
         "a", "n", "k", " ", "l", "i", "n", "e", " ", "a", "n", "d", " ", "t", "h", "e", "n",
         " ", "p", "r", "o", "v", "i", "d", "e", " ", "a", " ", "d", "e", "t", "a", "i", "l",
         "e", "d", " ", "d", "e", "s", "c", "r", "i", "p", "t", "i", "o", "n", " ", "o", "f",
         " ", "w", "h", "a", "t", " ", "w", "a", "s", " ", "c", "h", "e", "r", "r", "y", "-",
         "p", "i", "c", "k", "e", "d", ".", "\n">>
    \o <<"6", ".", " ", "E", "x", "p", "l", "a", "i", "n", " ", "H", "O", "W", " ", "c", "o", "n",
         "f", "l", "i", "c", "t", "s", " ", "w", "e", "r", "e", " ", "r", "e", "s", "o", "l",
         "v", "e", "d", " ", "a", "n", "d", " ", "w", "h", "a", "t", " ", "a", "d", "a", "p",
         "t", "a", "t", "i", "o", "n", "s", " ", "w", "e", "r", "e", " ", "m", "a", "d", "e",
         " ", "i", "f", " ", "a", "p", "p", "l", "i", "c", "a", "b", "l", "e", ".", "\n">>
    \o <<"7", ".", " ", "C", "O", "R", "R", "E", "C", "T", " ", "E", "x", "a", "m", "p", "l", "e",
         ":", " ", "d", "o", "c", "s", "(", "c", "h", "e", "r", "r", "y", "-", "p", "i", "c",
         "k", ")", ":", " ", "C", "h", "e", "r", "r", "y", "-", "p", "i", "c", "k", "e", "d",
         " ", "f", "e", "a", "t", "u", "r", "e", " ", "e", "n", "t", "r", "i", "e", "s", " ",
         "u", "p", "d", "a", "t", "e", " ", "i", "n", "t", "o", " ", "m", "a", "i", "n", "\n">>
    \o <<"8", ".", " ", "W", "R", "O", "N", "G", " ", "E", "x", "a", "m", "p", "l", "e", ":", " ",
         "d", "o", "c", "s", "(", "f", "i", "l", "e", ")", ":", " ", "u", "p", "d", "a", "t",
         "e", "d", " ", "f", "e", "a", "t", "u", "r", "e", " ", "e", "n", "t", "r", "i", "e",
         "s", " ", "(", "m", "i", "s", "s", "i", "n", "g", " ", "c", "h", "e", "r", "r", "y",
         "-", "p", "i", "c", "k", " ", "s", "c", "o", "p", "e", "!", ")", "\n", "\n">>

\* if gitState != nil && gitState.Type != git.StateNormal { header, switch, footer }
StateBlock(gitState) ==
    IF gitState.Type # "nil" /\ gitState.Type # StateNormal
    THEN SpecialHeader
         \o (IF gitState.Type = StateMerge THEN MergeBlock(gitState.OriginalMessage)
             ELSE IF gitState.Type = StateRebase THEN RebaseBlock(gitState.OriginalMessage)
             ELSE IF gitState.Type = StateCherryPick
                  THEN CherryPickBlock(gitState.OriginalMessage)
             ELSE <<>>)
         \o SpecialFooter
    ELSE <<>>

GeneralInstructions ==
    <<"A", "n", "a", "l", "y", "z", "e", " ", "t", "h", "e", " ", "f", "o", "l", "l", "o", "w",
         "i", "n", "g", " ", "c", "o", "d", "e", " ", "d", "i", "f", "f", ".", "\n", "\n">>
    \o <<"F", "i", "r", "s", "t", ",", " ", "d", "e", "t", "e", "r", "m", "i", "n", "e", " ", "w",
         "h", "e", "t", "h", "e", "r", " ", "t", "h", "e", " ", "d", "i", "f", "f", " ", "r",
         "e", "p", "r", "e", "s", "e", "n", "t", "s", " ", "a", " ", "s", "i", "n", "g", "l",
         "e", " ", "l", "o", "g", "i", "c", "a", "l", " ", "c", "h", "a", "n", "g", "e", " ",
         "o", "r", " ", "m", "u", "l", "t", "i", "p", "l", "e", " ", "i", "n", "d", "e", "p",
         "e", "n", "d", "e", "n", "t", " ", "c", "h", "a", "n", "g", "e", "s", " ", "t", "h",
         "a", "t", " ", "s", "h", "o", "u", "l", "d", " ", "b", "e", " ", "s", "p", "l", "i",
         "t", " ", "i", "n", "t", "o", " ", "s", "m", "a", "l", "l", "e", "r", " ", "c", "o",
         "m", "m", "i", "t", "s", " ", "t", "o", " ", "f", "o", "l", "l", "o", "w", " ", "c",
         "l", "e", "a", "n", " ", "c", "o", "d", "e", " ", "a", "n", "d", " ", "b", "e", "s",
         "t", " ", "p", "r", "a", "c", "t", "i", "c", "e", "s", ".", "\n", "\n">>
    \o <<"I", "f", " ", "t", "h", "e", " ", "d", "i", "f", "f", " ", "s", "h", "o", "u", "l", "d",
         " ", "b", "e", " ", "s", "p", "l", "i", "t", ",", " ", "b", "r", "i", "e", "f", "l",
         "y", " ", "s", "t", "a", "t", "e", " ", "t", "h", "a", "t", " ", "i", "t", " ", "c",
         "a", "n", " ", "b", "e", " ", "b", "r", "o", "k", "e", "n", " ", "d", "o", "w", "n",
         " ", "a", "n", "d", " ", "l", "i", "s", "t", " ", "t", "h", "e", " ", "s", "u", "g",
         "g", "e", "s", "t", "e", "d", " ", "c", "o", "m", "m", "i", "t", " ", "s", "c", "o",
         "p", "e", "s", " ", "o", "r", " ", "p", "u", "r", "p", "o", "s", "e", "s", " ", "(",
         "d", "o", " ", "n", "o", "t", " ", "g", "e", "n", "e", "r", "a", "t", "e", " ", "t",
         "h", "e", " ", "c", "o", "m", "m", "i", "t", "s", " ", "y", "e", "t", ")", ".", "\n",
         "\n">>
    \o <<"I", "f", " ", "t", "h", "e", " ", "d", "i", "f", "f", " ", "r", "e", "p", "r", "e", "s",
         "e", "n", "t", "s", " ", "a", " ", "s", "i", "n", "g", "l", "e", " ", "l", "o", "g",
         "i", "c", "a", "l", " ", "c", "h", "a", "n", "g", "e", ",", " ", "g", "e", "n", "e",
         "r", "a", "t", "e", " ", "a", " ", "s", "i", "n", "g", "l", "e", "-", "l", "i", "n",
         "e", " ", "g", "i", "t", " ", "c", "o", "m", "m", "i", "t", " ", "m", "e", "s", "s",
         "a", "g", "e", " ", "f", "o", "l", "l", "o", "w", "i", "n", "g", " ", "t", "h", "e",
         " ", "C", "o", "n", "v", "e", "n", "t", "i", "o", "n", "a", "l", " ", "C", "o", "m",
         "m", "i", "t", "s", " ", "s", "p", "e", "c", "i", "f", "i", "c", "a", "t", "i", "o",
         "n", ".", "\n", "\n">>
    \o <<"F", "o", "r", "m", "a", "t", " ", "f", "o", "r", " ", "c", "o", "m", "m", "i", "t", " ",
         "m", "e", "s", "s", "a", "g", "e", ":", "\n", "<", "t", "y", "p", "e", ">", "(", "<",
         "s", "c", "o", "p", "e", ">", ")", ":", " ", "<", "d", "e", "s", "c", "r", "i", "p",
         "t", "i", "o", "n", ">", "\n", "\n">>
    \o <<"A", "l", "l", "o", "w", "e", "d", " ", "t", "y", "p", "e", "s", ":", " ", "f", "e", "a",
         "t", ",", " ", "f", "i", "x", ",", " ", "d", "o", "c", "s", ",", " ", "s", "t", "y",
         "l", "e", ",", " ", "r", "e", "f", "a", "c", "t", "o", "r", ",", " ", "t", "e", "s",
         "t", ",", " ", "c", "h", "o", "r", "e", ".", "\n", "\n">>
    \o <<"I", "M", "P", "O", "R", "T", "A", "N", "T", ":", " ", "U", "s", "e", " ", "p", "a", "s",
         "t", " ", "t", "e", "n", "s", "e", " ", "f", "o", "r", " ", "t", "h", "e", " ", "d",
         "e", "s", "c", "r", "i", "p", "t", "i", "o", "n", " ", "(", "e", ".", "g", ".", ",",
         " ", "'", "a", "d", "d", "e", "d", " ", "f", "e", "a", "t", "u", "r", "e", "'", " ",
         "n", "o", "t", " ", "'", "a", "d", "d", " ", "f", "e", "a", "t", "u", "r", "e", "'",
         ",", " ", "'", "f", "i", "x", "e", "d", " ", "b", "u", "g", "'", " ", "n", "o", "t",
         " ", "'", "f", "i", "x", " ", "b", "u", "g", "'", ")", ".", "\n", "\n">>
    \o <<"D", "o", " ", "n", "o", "t", " ", "o", "u", "t", "p", "u", "t", " ", "a", "n", "y", "t",
         "h", "i", "n", "g", " ", "o", "t", "h", "e", "r", " ", "t", "h", "a", "n", " ", "t",
         "h", "e", " ", "m", "e", "s", "s", "a", "g", "e", " ", "o", "r", " ", "t", "h", "e",
         " ", "s", "p", "l", "i", "t", " ", "s", "u", "g", "g", "e", "s", "t", "i", "o", "n",
         ".", "\n", "\n">>

TeamRulesLabel ==
    <<"T", "e", "a", "m", " ", "R", "u", "l", "e", "s", ":", "\n">>

DiffLabel ==
    <<"D", "i", "f", "f", ":", "\n">>

\* the rules block is written for an empty rules text too (mutant)
RulesBlock_Always(rules) == TeamRulesLabel \o rules \o <<"\n", "\n">>

\* if rules != "" { "Team Rules:\n", rules, "\n\n" }
RulesBlock(rules) ==
    IF rules # <<>> THEN TeamRulesLabel \o rules \o <<"\n", "\n">> ELSE <<>>

buildPrompt(diff, rules, gitState) ==
    RolePreamble \o StateBlock(gitState) \o GeneralInstructions \o RulesBlock(rules)
    \o DiffLabel \o diff

NotBuilt(diff, rules, gitState) ==
    [diff |-> diff, rules |-> rules, gitState |-> gitState, prompt |-> <<>>, done |-> FALSE]

\* the call of buildPrompt at the start of GenerateCommitMessage
CallBuildPrompt ==
    /\ ~built.done
    /\ built' = [built EXCEPT !.prompt = buildPrompt(built.diff, built.rules, built.gitState),
                              !.done = TRUE]
    /\ UNCHANGED clientVars
    /\ UNCHANGED detectVars
    /\ UNCHANGED diffVars
    /\ UNCHANGED openVars
    /\ UNCHANGED stagedVars
    /\ UNCHANGED loaderVars
    /\ UNCHANGED runVars

\* the arguments of buildPrompt: short texts, no state or one of every type
PromptDiffs == StringsUpTo({"d", "\n"}, MaxTextLen)
PromptRules == StringsUpTo({"r", "\n"}, MaxTextLen)
PromptStates ==
    {NilState} \cup {GitState(type, msg, type # StateNormal) :
                        type \in GitStateTypes, msg \in {<<>>, <<"m">>}}

PromptIdle == built = NotBuilt(<<>>, <<>>, NilState)

----------------------------------------------------------------------------
(* ClientImpl.openRepo *)

\* where the process can be: the repository root, a directory below it, a
\* directory outside every repository, a directory that was removed
Dirs == {"root", "sub", "outside", "gone"}

\* how many times openRepo is called
MaxOpens == 3

\* os.Getwd()
Getwd(dir) == IF dir = "gone" THEN [wd |-> "", err |-> "failed to get working directory"]
              ELSE [wd |-> dir, err |-> "nil"]

\* git.PlainOpenWithOptions(wd, DetectDotGit: true): .git is looked for in wd
\* and in its parents
PlainOpen(wd) == IF wd \in {"root", "sub"} THEN "nil" ELSE "ErrRepositoryNotExists"

\* openRepo: the handle is the repository object made by this very call
openRepo(dir, call) ==
    IF Getwd(dir).err # "nil" THEN [wd |-> dir, handle |-> 0, err |-> Getwd(dir).err]
    ELSE IF PlainOpen(Getwd(dir).wd) # "nil"
         THEN [wd |-> dir, handle |-> 0, err |-> PlainOpen(Getwd(dir).wd)]
    ELSE [wd |-> dir, handle |-> call, err |-> "nil"]

\* IsInsideRepo: ErrRepositoryNotExists is the answer false, not an error
IsInsideRepo(opening) ==
    IF opening.err = "ErrRepositoryNotExists" THEN [inside |-> FALSE, err |-> "nil"]
    ELSE IF opening.err # "nil" THEN [inside |-> FALSE, err |-> opening.err]
    ELSE [inside |-> TRUE, err |-> "nil"]

\* a call of openRepo, by any of the operations of the client
CallOpenRepo ==
    /\ Len(opened) < MaxOpens
    /\ opened' = Append(opened, openRepo(cwd, Len(opened) + 1))
    /\ UNCHANGED cwd
    /\ UNCHANGED clientVars
    /\ UNCHANGED detectVars
    /\ UNCHANGED diffVars
    /\ UNCHANGED promptVars
    /\ UNCHANGED stagedVars
    /\ UNCHANGED loaderVars
    /\ UNCHANGED runVars

\* the process changes its working directory
Chdir ==
    /\ \E dir \in Dirs \ {cwd} : cwd' = dir
    /\ UNCHANGED opened
    /\ UNCHANGED clientVars
    /\ UNCHANGED detectVars
    /\ UNCHANGED diffVars
    /\ UNCHANGED promptVars
    /\ UNCHANGED stagedVars
    /\ UNCHANGED loaderVars
    /\ UNCHANGED runVars

OpenIdle ==
    /\ cwd = "root"
    /\ opened = <<>>

----------------------------------------------------------------------------
(* ClientImpl.HasStagedChanges *)

StagedReturn(has, err) == [called |-> TRUE, has |-> has, err |-> err]

\* any entry of the status counts, an untracked file too (mutant)
HasStagedChanges_AnyEntry(r) ==
    IF r.scan = "openerr" THEN StagedReturn(FALSE, "failed to open repository")
    ELSE IF r.scan = "worktreeerr" THEN StagedReturn(FALSE, "failed to get worktree")
    ELSE IF r.scan = "statuserr" THEN StagedReturn(FALSE, "failed to get status")
    ELSE StagedReturn(DOMAIN r.status # {}, "nil")

\* the loop returns true at the first file whose Staging is neither
\* Unmodified nor Untracked, and false after the last file
HasStagedChanges(r) ==
    IF r.scan = "openerr" THEN StagedReturn(FALSE, "failed to open repository")
    ELSE IF r.scan = "worktreeerr" THEN StagedReturn(FALSE, "failed to get worktree")
    ELSE IF r.scan = "statuserr" THEN StagedReturn(FALSE, "failed to get status")
    ELSE StagedReturn(\E p \in DOMAIN r.status :
                          r.status[p].staging # Unmodified /\ r.status[p].staging # Untracked,
                      "nil")

StagedNotCalled == [called |-> FALSE, has |-> FALSE, err |-> "nil"]

\* a call of HasStagedChanges
CallHasStagedChanges ==
    /\ ~staged.called
    /\ staged' = HasStagedChanges(repo)
    /\ UNCHANGED diffVars
    /\ UNCHANGED clientVars
    /\ UNCHANGED detectVars
    /\ UNCHANGED promptVars
    /\ UNCHANGED openVars
    /\ UNCHANGED loaderVars
    /\ UNCHANGED runVars

\* repositories with every status scan, the empty one too, and few contents
StatusMaps ==
    {<<>>} \cup {[p \in {"f"} |-> StatusOf(st)] : st \in StagingCodes}
    \cup {[p \in {"f", "g"} |-> StatusOf(IF p = "f" THEN st ELSE Untracked)] :
             st \in StagingCodes}
StatusRepos ==
    {r \in [scan : Scans, head : Heads, status : StatusMaps,
            tree : {[p \in {"f", "g"} |-> IF p = "f" THEN c ELSE NoFile] : c \in FewContents},
            work : {[p \in {"f", "g"} |-> IF p = "f" THEN c ELSE File(<<"c">>)] :
                       c \in FewContents},
            cwd : {"root"}, subwork : {NoSubFiles}] :
        /\ r.scan # "ok" => r.head = "ok"
        /\ r.head # "ok" => r.tree["f"] = NoFile}

StagedIdle == staged = StagedNotCalled

----------------------------------------------------------------------------
(* FileLoader.LoadRules and findRepoRoot *)

\* how many directories deep the working directory is
MaxDepth == 2

\* a directory is the sequence of names from the filesystem root down to it
PathTo(depth) == [i \in 1..depth |-> i]

\* filepath.Dir(dir): the filesystem root is its own parent
Parent(dir) == IF dir = <<>> THEN <<>> ELSE SubSeq(dir, 1, Len(dir) - 1)

\* the walk gives up in the first directory already (mutant)
AtTop_AtOnce(dir) == TRUE

\* parent == dir
AtTop(dir) == Parent(dir) = dir

\* .git-commit-rules-for-ai in a directory: not there, there and readable,
\* or there and os.ReadFile fails on it
RulesMissing == [kind |-> "missing", data |-> <<>>]
RulesUnreadable == [kind |-> "unreadable", data |-> <<>>]
RulesFile(data) == [kind |-> "file", data |-> data]

LoadReturn(text, err) == [text |-> text, err |-> err]

\* os.ReadFile(rulesPath) and what LoadRules makes of its error
ReadRules(file) ==
    IF file.kind = "file" THEN LoadReturn(file.data, "nil")
    ELSE IF file.kind = "missing" THEN LoadReturn(<<>>, "nil")
    ELSE LoadReturn(<<>>, "read error")

\* os.Getwd() in findRepoRoot; its error makes LoadRules return "", nil
LoadRulesStart ==
    /\ loader.pc = "start"
    /\ loader' = IF loader.gone
                 THEN [loader EXCEPT !.pc = "done", !.result = LoadReturn(<<>>, "nil")]
                 ELSE [loader EXCEPT !.pc = "walk", !.dir = loader.cwd]
    /\ UNCHANGED clientVars
    /\ UNCHANGED detectVars
    /\ UNCHANGED diffVars
    /\ UNCHANGED promptVars
    /\ UNCHANGED openVars
    /\ UNCHANGED stagedVars
    /\ UNCHANGED runVars

\* one turn of the loop of findRepoRoot; LoadRules goes on when it returns
LoadRulesWalk ==
    /\ loader.pc = "walk"
    /\ loader' =
         IF StatOK(loader.gitAt[Len(loader.dir)])
         THEN [loader EXCEPT !.pc = "done", !.stats = @ + 1,
                             !.result = ReadRules(loader.rulesAt[Len(loader.dir)])]
         ELSE IF AtTop(loader.dir)
         THEN [loader EXCEPT !.pc = "done", !.stats = @ + 1,
                             !.result = LoadReturn(<<>>, "nil")]
         ELSE [loader EXCEPT !.stats = @ + 1, !.dir = Parent(loader.dir)]
    /\ UNCHANGED clientVars
    /\ UNCHANGED detectVars
    /\ UNCHANGED diffVars
    /\ UNCHANGED promptVars
    /\ UNCHANGED openVars
    /\ UNCHANGED stagedVars
    /\ UNCHANGED runVars

\* the working directory, and .git and the rules file in it and in each of
\* its ancestors (index 0 is the filesystem root)
RulesFiles == {RulesMissing, RulesUnreadable, RulesFile(<<" ", "r", "\n">>)}
Loaders ==
    UNION {[cwd : {PathTo(depth)}, gone : BOOLEAN,
            gitAt : [0..depth -> Kinds], rulesAt : [0..depth -> RulesFiles],
            pc : {"start"}, dir : {<<>>}, stats : {0},
            result : {LoadReturn(<<>>, "nil")}] : depth \in 0..MaxDepth}

LoaderIdle ==
    loader = [cwd |-> <<>>, gone |-> FALSE, gitAt |-> [i \in {0} |-> "absent"],
              rulesAt |-> [i \in {0} |-> RulesMissing], pc |-> "done", dir |-> <<>>,
              stats |-> 0, result |-> LoadReturn(<<>>, "nil")]

----------------------------------------------------------------------------
(* App.Run *)

\* what the calls App.Run makes can return
InsideReturns == {IsInsideRepo(openRepo(dir, 1)) : dir \in Dirs}
StagedReturns == {StagedReturn(TRUE, "nil"), StagedReturn(FALSE, "nil"),
                  StagedReturn(FALSE, "failed to get status")}
RulesReturns == {ReadRules(file) : file \in RulesFiles}
StateReturns ==
    {[state |-> GitState(type, <<>>, type # StateNormal), err |-> "nil"] : type \in GitStateTypes}
    \cup {[state |-> NilState, err |-> "NotARepository"]}
DiffReturns == {DiffReturn(<<"d">>, "nil"), DiffReturn(<<>>, "failed to get status")}
AIReturns == {[text |-> <<"m">>, err |-> "nil"], [text |-> <<>>, err |-> "rate limit exceeded"]}

Envs == [inside : InsideReturns, staged : StagedReturns, rules : RulesReturns,
         state : StateReturns, diff : DiffReturns, ai : AIReturns]

NoArgs == [diff |-> <<>>, rules |-> <<>>, gitState |-> NilState]

RunStart(env) ==
    [env |-> env, pc |-> "repo", log |-> <<>>, rules |-> <<>>, gitState |-> NilState,
     diff |-> <<>>, aiArgs |-> NoArgs, err |-> "nil"]

\* return fmt.Errorf(...)
RunFails(r, step, err) == [r EXCEPT !.pc = "done", !.log = Append(@, step), !.err = err]

\* isRepo, err := a.Git.IsInsideRepo()
RunIsInsideRepo ==
    /\ run.pc = "repo"
    /\ run' = IF run.env.inside.err # "nil"
              THEN RunFails(run, "IsInsideRepo", "failed to check repository status")
              ELSE IF ~run.env.inside.inside
              THEN RunFails(run, "IsInsideRepo", "not a git repository")
              ELSE [run EXCEPT !.pc = "staged", !.log = Append(@, "IsInsideRepo")]
    /\ UNCHANGED clientVars
    /\ UNCHANGED detectVars
    /\ UNCHANGED diffVars
    /\ UNCHANGED promptVars
    /\ UNCHANGED openVars
    /\ UNCHANGED stagedVars
    /\ UNCHANGED loaderVars

\* hasChanges, err := a.Git.HasStagedChanges()
RunHasStagedChanges ==
    /\ run.pc = "staged"
    /\ run' = IF run.env.staged.err # "nil"
              THEN RunFails(run, "HasStagedChanges", "failed to check for staged changes")
              ELSE IF ~run.env.staged.has
              THEN RunFails(run, "HasStagedChanges", "no staged changes found")
              ELSE [run EXCEPT !.pc = "rules", !.log = Append(@, "HasStagedChanges")]
    /\ UNCHANGED clientVars
    /\ UNCHANGED detectVars
    /\ UNCHANGED diffVars
    /\ UNCHANGED promptVars
    /\ UNCHANGED openVars
    /\ UNCHANGED stagedVars
    /\ UNCHANGED loaderVars

\* an error of LoadRules ends the run (mutant)
AfterLoadRules_StopOnError(loaded) == IF loaded.err # "nil" THEN "done" ELSE "state"

\* the error of LoadRules is printed as a warning, and the run goes on
AfterLoadRules(loaded) == "state"

\* rules, err := a.RulesLoader.LoadRules()
RunLoadRules ==
    /\ run.pc = "rules"
    /\ run' = [run EXCEPT !.pc = AfterLoadRules(run.env.rules), !.log = Append(@, "LoadRules"),
                          !.rules = run.env.rules.text]
    /\ UNCHANGED clientVars
    /\ UNCHANGED detectVars
    /\ UNCHANGED diffVars
    /\ UNCHANGED promptVars
    /\ UNCHANGED openVars
    /\ UNCHANGED stagedVars
    /\ UNCHANGED loaderVars

\* on an error: gitState = &git.GitState{Type: git.StateNormal}
StateOrNormal(detected) ==
    IF detected.err # "nil" THEN GitState(StateNormal, <<>>, FALSE) ELSE detected.state

\* gitState, err := a.Git.DetectState()
RunDetectState ==
    /\ run.pc = "state"
    /\ run' = [run EXCEPT !.pc = "diff", !.log = Append(@, "DetectState"),
                          !.gitState = StateOrNormal(run.env.state)]
    /\ UNCHANGED clientVars
    /\ UNCHANGED detectVars
    /\ UNCHANGED diffVars
    /\ UNCHANGED promptVars
    /\ UNCHANGED openVars
    /\ UNCHANGED stagedVars
    /\ UNCHANGED loaderVars

\* diff, err := a.Git.GetStagedDiff()
RunGetStagedDiff ==
    /\ run.pc = "diff"
    /\ run' = IF run.env.diff.err # "nil"
              THEN RunFails(run, "GetStagedDiff", "failed to get diff")
              ELSE [run EXCEPT !.pc = "ai", !.log = Append(@, "GetStagedDiff"),
                               !.diff = run.env.diff.text]
    /\ UNCHANGED clientVars
    /\ UNCHANGED detectVars
    /\ UNCHANGED diffVars
    /\ UNCHANGED promptVars
    /\ UNCHANGED openVars
    /\ UNCHANGED stagedVars
    /\ UNCHANGED loaderVars

\* message, err := a.AI.GenerateCommitMessage(diff, rules, gitState), then the output
RunGenerate ==
    /\ run.pc = "ai"
    /\ run' = [run EXCEPT !.pc = "done", !.log = Append(@, "GenerateCommitMessage"),
                          !.aiArgs = [diff |-> run.diff, rules |-> run.rules,
                                      gitState |-> run.gitState],
                          !.err = IF run.env.ai.err # "nil"
                                  THEN "failed to generate commit message" ELSE "nil"]
    /\ UNCHANGED clientVars
    /\ UNCHANGED detectVars
    /\ UNCHANGED diffVars
    /\ UNCHANGED promptVars
    /\ UNCHANGED openVars
    /\ UNCHANGED stagedVars
    /\ UNCHANGED loaderVars

RunIdle ==
    run = [RunStart([inside |-> [inside |-> FALSE, err |-> "nil"],
                     staged |-> StagedReturn(FALSE, "nil"),
                     rules |-> ReadRules(RulesMissing),
                     state |-> [state |-> NilState, err |-> "NotARepository"],
                     diff |-> DiffReturn(<<>>, "failed to get status"),
                     ai |-> [text |-> <<>>, err |-> "rate limit exceeded"]])
           EXCEPT !.pc = "done"]

ClientIdle ==
    /\ pc = "done"
    /\ attempt = 0
    /\ sleeping = 0
    /\ inflight = 0
    /\ trace = <<>>
    /\ result = NoResult
    /\ outcomes = 0
    /\ urlOK = TRUE

DetectIdle ==
    /\ fs = EmptyFs
    /\ ret = NotCalled

----------------------------------------------------------------------------
(* Specifications *)

Init == ClientInit /\ DetectIdle /\ DiffIdle /\ PromptIdle /\ OpenIdle /\ StagedIdle /\ LoaderIdle /\ RunIdle

Next ==
    \/ LoopTop
    \/ SleepEnd
    \/ SendRequest
    \/ TransportFailure
    \/ Receive

\* one GenerateCommitMessage call against an endpoint that answers anything
Spec == Init /\ [][Next]_vars

\* time.Sleep returns and c.client.Do returns (the client has a timeout):
\* the call is never stuck at a step it can take
FairSpec == Spec /\ WF_vars(Next)

InitDetect == ClientIdle /\ fs \in NoGitFs \cup MarkerFs /\ ret = NotCalled /\ DiffIdle /\ PromptIdle /\ OpenIdle /\ StagedIdle /\ LoaderIdle /\ RunIdle

NextDetect == CallDetect

\* DetectGitState on every combination of markers
SpecDetect == InitDetect /\ [][NextDetect]_vars

InitMessage == ClientIdle /\ fs \in MessageFs /\ ret = NotCalled /\ DiffIdle /\ PromptIdle /\ OpenIdle /\ StagedIdle /\ LoaderIdle /\ RunIdle

\* DetectGitState on every short message file
SpecMessage == InitMessage /\ [][NextDetect]_vars

InitDiff == ClientIdle /\ DetectIdle /\ repo \in SmallRepos /\ diffCalls = <<>> /\ PromptIdle /\ OpenIdle /\ StagedIdle /\ LoaderIdle /\ RunIdle

NextDiff == CallGetStagedDiff

\* two GetStagedDiff calls on every small repository
SpecDiff == InitDiff /\ [][NextDiff]_vars

InitLongDiff == ClientIdle /\ DetectIdle /\ repo \in LongRepos /\ diffCalls = <<>> /\ PromptIdle /\ OpenIdle /\ StagedIdle /\ LoaderIdle /\ RunIdle

\* two GetStagedDiff calls on repositories whose diff is about as long as the limit
SpecLongDiff == InitLongDiff /\ [][NextDiff]_vars

InitPrompt ==
    /\ RunIdle
    /\ LoaderIdle
    /\ StagedIdle
    /\ OpenIdle
    /\ ClientIdle /\ DetectIdle /\ DiffIdle
    /\ built \in {NotBuilt(diff, rules, gitState) :
                    diff \in PromptDiffs, rules \in PromptRules, gitState \in PromptStates}

NextPrompt == CallBuildPrompt

\* buildPrompt on every short diff and rules text and every state
SpecPrompt == InitPrompt /\ [][NextPrompt]_vars

InitOpen ==
    /\ RunIdle
    /\ LoaderIdle
    /\ StagedIdle
    /\ ClientIdle /\ DetectIdle /\ DiffIdle /\ PromptIdle
    /\ cwd \in Dirs
    /\ opened = <<>>

NextOpen ==
    \/ CallOpenRepo
    \/ Chdir

\* openRepo calls between changes of the working directory
SpecOpen == InitOpen /\ [][NextOpen]_vars

InitStaged ==
    /\ RunIdle
    /\ LoaderIdle
    /\ ClientIdle /\ DetectIdle /\ PromptIdle /\ OpenIdle
    /\ repo \in StatusRepos
    /\ diffCalls = <<>>
    /\ staged = StagedNotCalled

NextStaged ==
    \/ CallHasStagedChanges
    \/ CallGetStagedDiff

\* HasStagedChanges and GetStagedDiff on the same repository
SpecStaged == InitStaged /\ [][NextStaged]_vars

InitRules ==
    /\ RunIdle
    /\ ClientIdle /\ DetectIdle /\ DiffIdle /\ PromptIdle /\ OpenIdle /\ StagedIdle
    /\ loader \in Loaders

NextRules ==
    \/ LoadRulesStart
    \/ LoadRulesWalk

\* LoadRules from every directory of every short chain of directories; the
\* call runs on until it returns
SpecRules == InitRules /\ [][NextRules]_vars /\ WF_vars(NextRules)

InitSubdir ==
    /\ ClientIdle /\ DetectIdle /\ PromptIdle /\ OpenIdle /\ StagedIdle /\ LoaderIdle
    /\ RunIdle
    /\ repo \in SubdirRepos
    /\ diffCalls = <<>>

NextSubdir ==
    \/ CallGetStagedDiff
    \/ ChdirRepo

\* GetStagedDiff called from the repository root and from a directory below
SpecSubdir == InitSubdir /\ [][NextSubdir]_vars

InitRun ==
    /\ ClientIdle /\ DetectIdle /\ DiffIdle /\ PromptIdle /\ OpenIdle /\ StagedIdle
    /\ LoaderIdle
    /\ run \in {RunStart(env) : env \in Envs}

NextRun ==
    \/ RunIsInsideRepo
    \/ RunHasStagedChanges
    \/ RunLoadRules
    \/ RunDetectState
    \/ RunGetStagedDiff
    \/ RunGenerate

\* App.Run with every outcome of each of its calls
SpecRun == InitRun /\ [][NextRun]_vars

----------------------------------------------------------------------------
(* Claims about GenerateCommitMessage *)

FirstOf(S) == CHOOSE i \in S : \A j \in S : i <= j
LastOf(S) == CHOOSE i \in S : \A j \in S : j <= i
NonSpaceAt(s) == {i \in 1..Len(s) : s[i] \notin Space}

\* s from its first to its last character that is not whitespace
Stripped(s) ==
    IF NonSpaceAt(s) = {} THEN <<>> ELSE SubSeq(s, FirstOf(NonSpaceAt(s)), LastOf(NonSpaceAt(s)))

\* the first n responses all had status 429
RateLimitedUpTo(n) == \A i \in 1..n : Received[i].status = 429

NoFailure == \A i \in 1..Len(trace) : trace[i].op # "failed"

\* a request other than the first directly follows a finished sleep, which
\* directly follows a received response
SendsInOrder ==
    \A p \in 2..Len(trace) :
        trace[p].op = "send" =>
            /\ trace[p - 1].op = "slept"
            /\ p > 2
            /\ trace[p - 2].op = "recv"

\* C1: one call sends at most 4 requests, and every attempt that is followed
\* by another request ended with a response of status 429.
C1_AtMostFourOnlyAfter429 ==
    /\ Calls <= 4
    /\ \A i \in 1..Len(trace) :
          (/\ trace[i].op \in {"recv", "failed"}
           /\ \E j \in (i + 1)..Len(trace) : trace[j].op = "send")
          => (trace[i].op = "recv" /\ trace[i].status = 429)

C1_Witness ==
    /\ pc = "done"
    /\ Calls = 4
    /\ result.err = "nil"

\* C2: k responses of status 429 followed by a 200 whose text is not empty:
\* the call returns the trimmed text and no error after k+1 requests and the
\* k sleeps 2, 4, ..., 2^k, each finished before the next request.
C2_RetryThenSuccess ==
    \A k \in 0..3 :
        (/\ pc = "done"
         /\ NoFailure
         /\ Len(Received) = k + 1
         /\ RateLimitedUpTo(k)
         /\ Received[k + 1].status = 200
         /\ Received[k + 1].body.json
         /\ Received[k + 1].body.text # <<>>)
        => /\ result.err = "nil"
           /\ result.msg = Stripped(Received[k + 1].body.text)
           /\ Calls = k + 1
           /\ Sleeps = [i \in 1..k |-> 2 ^ i]
           /\ SendsInOrder

C2_Witness ==
    /\ pc = "done"
    /\ Len(Received) = 3
    /\ RateLimitedUpTo(2)
    /\ Received[3].status = 200
    /\ result.err = "nil"
    /\ result.msg = <<"a">>
    /\ Received[3].body.text = <<"a", " ">>
    /\ Sleeps = <<2, 4>>

\* C3: four responses of status 429: the call ends with RateLimitExceeded
\* carrying the 4th body, after 4 requests and the sleeps 2, 4, 8, and
\* nothing follows the 4th response.
C3_RateLimitExceeded ==
    (Len(Received) = 4 /\ RateLimitedUpTo(4))
    => /\ pc = "done"
       /\ result.err = "RateLimitExceeded"
       /\ result.body = Received[4].body
       /\ Calls = 4
       /\ Sleeps = <<2, 4, 8>>
       /\ sleeping = 0
       /\ trace[Len(trace)].op = "recv"

C3_Witness ==
    /\ Len(Received) = 4
    /\ RateLimitedUpTo(4)
    /\ result.err = "RateLimitExceeded"
    /\ Received[4].body # Received[3].body
    /\ Received[4].body # Received[1].body

\* C4: a response whose status is neither 429 nor 2xx is the last thing the
\* call does: it ends with a RemoteError carrying that status and body.
C4_RemoteErrorIsTerminal ==
    \A i \in 1..Len(trace) :
        (/\ trace[i].op = "recv"
         /\ trace[i].status # 429
         /\ ~Is2xx(trace[i].status))
        => /\ i = Len(trace)
           /\ pc = "done"
           /\ sleeping = 0
           /\ inflight = 0
           /\ result.err = "RemoteError"
           /\ result.status = trace[i].status
           /\ result.body = trace[i].body
           /\ result.msg = <<>>

C4_Witness ==
    /\ pc = "done"
    /\ Calls = 4
    /\ result.err = "RemoteError"
    /\ result.status = 400
    /\ result.body.json

\* a decoded response whose generated text is empty or absent
EmptyTextAt(i) ==
    /\ trace[i].op = "recv"
    /\ trace[i].body.json
    /\ trace[i].body.text = <<>>

\* C5, as claimed: every 2xx response with an empty generated text ends the
\* call with EmptyResponse.
C5_Any2xxEmptyIsEmptyResponse ==
    \A i \in 1..Len(trace) :
        (EmptyTextAt(i) /\ Is2xx(trace[i].status))
        => /\ i = Len(trace)
           /\ pc = "done"
           /\ result.err = "EmptyResponse"

\* C5, amended: a response of status 200 with an empty generated text ends
\* the call with EmptyResponse; with any other 2xx status it ends the call
\* with RemoteError; no request follows either.
C5_Only200EmptyIsEmptyResponse ==
    \A i \in 1..Len(trace) :
        (EmptyTextAt(i) /\ Is2xx(trace[i].status))
        => /\ i = Len(trace)
           /\ pc = "done"
           /\ inflight = 0
           /\ result.err = IF trace[i].status = 200 THEN "EmptyResponse" ELSE "RemoteError"

C5_Witness ==
    /\ pc = "done"
    /\ Calls = 2
    /\ EmptyTextAt(Len(trace))
    /\ trace[Len(trace)].status = 200
    /\ result.err = "EmptyResponse"

\* C6: a call that returns no error returns a string that is not empty and
\* has no whitespace at either end.
C6_SuccessIsNonEmptyTrimmed ==
    (pc = "done" /\ result.err = "nil")
    => /\ result.msg # <<>>
       /\ result.msg[1] \notin Space
       /\ result.msg[Len(result.msg)] \notin Space

\* C7: the call ends, with one outcome that never changes; at most one
\* request is in flight, none during a sleep, and a request other than the
\* first is sent only after the previous response and the sleep after it.
C7_OneOutcomeNoOverlap ==
    /\ [](/\ inflight <= 1
          /\ outcomes <= 1
          /\ (pc = "done") <=> (outcomes = 1)
          /\ (pc = "done") <=> (result.err # "pending")
          /\ (pc = "sleeping") => (inflight = 0)
          /\ SendsInOrder)
    /\ [][pc = "done" => (pc' = "done" /\ result' = result)]_vars
    /\ <>(pc = "done")

C7_Witness ==
    /\ pc = "done"
    /\ outcomes = 1
    /\ Calls = 3
    /\ Sleeps = <<2, 4>>

----------------------------------------------------------------------------
(* Claims about DetectGitState *)

Detected == ret.called /\ ret.err = "nil"

\* the first match in the order Merge, CherryPick, Rebase, Normal
FirstMatch(f) ==
    IF f.mergeHead # "absent" THEN "merge"
    ELSE IF f.cherryPickHead # "absent" THEN "cherry-pick"
    ELSE IF f.rebaseMerge = "dir" \/ f.rebaseApply = "dir" THEN "rebase"
    ELSE "normal"

\* C8: under an existing .git, DetectGitState returns the first match in the
\* order Merge, CherryPick, Rebase, Normal for every combination of the markers.
C8_FirstMatchWins ==
    (ret.called /\ fs.gitDir)
    => /\ ret.err = "nil"
       /\ ret.state.Type = FirstMatch(fs)
       /\ (fs.mergeHead # "absent") => (ret.state.Type = "merge")
       /\ (ret.state.Type = "cherry-pick") => (fs.mergeHead = "absent")
       /\ (ret.state.Type = "rebase")
            => (fs.mergeHead = "absent" /\ fs.cherryPickHead = "absent")
       /\ (ret.state.Type = "normal")
            => /\ fs.mergeHead = "absent"
               /\ fs.cherryPickHead = "absent"
               /\ fs.rebaseMerge # "dir"
               /\ fs.rebaseApply # "dir"

C8_Witness ==
    /\ Detected
    /\ fs.mergeHead = "file"
    /\ fs.cherryPickHead = "file"
    /\ fs.rebaseMerge = "dir"
    /\ fs.rebaseApply = "dir"
    /\ ret.state.Type = "merge"

\* C9: a returned state has one of the four types, ConflictMode is set
\* exactly when the type is not Normal, and a Normal state has no message.
C9_ConflictModeIffNotNormal ==
    Detected
    => /\ ret.state.Type \in {"normal", "merge", "rebase", "cherry-pick"}
       /\ ret.state.ConflictMode = (ret.state.Type # "normal")
       /\ (ret.state.Type = "normal") => (ret.state.OriginalMessage = <<>>)

C9_Witness ==
    /\ Detected
    /\ ret.state.Type = "normal"
    /\ ~ret.state.ConflictMode
    /\ fs.mergeMsg.exists
    /\ fs.commitEditMsg.exists
    /\ fs.rebaseMerge = "file"

\* the message file the state's message is read from
MessageFileOf(f, type) == IF type = "merge" THEN f.mergeMsg ELSE f.commitEditMsg

MessageRead ==
    /\ Detected
    /\ ret.state.Type \in {"merge", "cherry-pick"}
    /\ MessageFileOf(fs, ret.state.Type).exists

EmptyOrHash(line) == line = <<>> \/ line[1] = "#"

BlankOrComment(line) ==
    NonSpaceAt(line) = {} \/ line[FirstOf(NonSpaceAt(line))] = "#"

\* C10, as claimed: the message is the file's lines without those that are
\* empty or start with #, otherwise unchanged.
C10_EmptyAndHashLinesRemoved ==
    MessageRead
    => ret.state.OriginalMessage =
          JoinLines(SelectSeq(SplitLines(MessageFileOf(fs, ret.state.Type).data),
                              LAMBDA l : ~EmptyOrHash(l)))

\* C10, amended: the message is the lines of the whitespace-trimmed content
\* without those that are blank or whose first character after leading
\* whitespace is #, otherwise unchanged, in order, joined by newlines.
C10_BlankAndCommentLinesRemoved ==
    MessageRead
    => ret.state.OriginalMessage =
          JoinLines(SelectSeq(SplitLines(Stripped(MessageFileOf(fs, ret.state.Type).data)),
                              LAMBDA l : ~BlankOrComment(l)))

C10_Witness ==
    /\ Detected
    /\ ret.state.Type = "cherry-pick"
    /\ fs.commitEditMsg = File(ExampleMessage)
    /\ fs.mergeMsg.exists
    /\ ret.state.OriginalMessage = <<"a", "\n", "b">>

HeadNameOf(f) == IF f.rebaseMerge = "dir" THEN f.headNameMerge ELSE f.headNameApply

\* C12: a Rebase state's message is "Rebase branch: " and the trimmed raw
\* content of head-name (refs/heads/ kept), read from rebase-merge when that
\* directory exists and from rebase-apply otherwise; it is empty when
\* head-name is missing.
C12_RebaseMessageIsRawHeadName ==
    (Detected /\ ret.state.Type = "rebase")
    => /\ (fs.rebaseMerge # "dir") => (fs.rebaseApply = "dir")
       /\ ret.state.OriginalMessage =
            IF HeadNameOf(fs).exists
            THEN RebasePrefix \o Stripped(HeadNameOf(fs).data)
            ELSE <<>>

C12_Witness ==
    /\ Detected
    /\ ret.state.Type = "rebase"
    /\ fs.rebaseMerge = "dir"
    /\ fs.rebaseApply = "dir"
    /\ fs.headNameApply = File(<<" ", "y">>)
    /\ ret.state.OriginalMessage = RebasePrefix \o RefsHeads \o <<"x">>

----------------------------------------------------------------------------
(* Claims about GetStagedDiff *)

\* the lines of a text: a final newline ends the last line, it starts no other
LinesOf(text) ==
    LET segments == SplitLines(text)
    IN  IF segments[Len(segments)] = <<>> THEN SubSeq(segments, 1, Len(segments) - 1)
        ELSE segments

Signed(sign, lines) == [i \in DOMAIN lines |-> <<sign>> \o lines[i]]

\* a line of a block's body: it has a sign, and is not the --- or +++ header
IsBodyLine(line, signs) ==
    /\ line # <<>>
    /\ line[1] \in signs
    /\ ~HasPrefix(line, <<line[1], line[1], line[1]>>)

BodyLines(text, signs) == SelectSeq(LinesOf(text), LAMBDA line : IsBodyLine(line, signs))

HasLine(text, line) == \E i \in DOMAIN LinesOf(text) : LinesOf(text)[i] = line

\* the calls that returned a diff
DiffsOK == {i \in DOMAIN diffCalls : diffCalls[i].ret.err = "nil"}

\* the file f is the only one in the status, with this staging code
OnlyStaged(staging) == DOMAIN repo.status = {"f"} /\ repo.status["f"].staging = staging

\* C13: an Added file of N lines, with or without a final newline, gives a block
\* with the new file mode 100644 header and exactly N body lines, the i-th being
\* + followed by the i-th line of the file.
C13_AddedFileGivesItsLines ==
    \A i \in DiffsOK :
        (OnlyStaged(Added) /\ repo.work["f"].exists)
        => /\ HasLine(diffCalls[i].ret.text, <<"n", "e", "w", " ", "f", "i", "l", "e", " ", "m", "o", "d", "e", " ", "1", "0", "0", "6", "4", "4">>)
           /\ BodyLines(diffCalls[i].ret.text, {"+", "-"})
                = Signed("+", LinesOf(repo.work["f"].data))

\* C14: the body of a Deleted file's block is the lines of its content in the
\* HEAD tree, each prefixed with -, whatever the working directory holds at
\* that path; without a committed tree the block is its header lines only.
C14_DeletedFileGivesHeadLines ==
    \A i \in DiffsOK :
        OnlyStaged(Deleted)
        => /\ HasLine(diffCalls[i].ret.text, <<"d", "e", "l", "e", "t", "e", "d", " ", "f", "i", "l", "e", " ", "m", "o", "d", "e", " ", "1", "0", "0", "6", "4", "4">>)
           /\ ReadHeadBlob(repo, "f").exists
                => BodyLines(diffCalls[i].ret.text, {"+", "-"})
                     = Signed("-", LinesOf(repo.tree["f"].data))
           /\ ~HasHeadTree(repo) => BodyLines(diffCalls[i].ret.text, {"+", "-"}) = <<>>

\* C15: the body of a Modified file's block is every line of the committed
\* version prefixed with -, in order, then every line of the working version
\* prefixed with +, in order; common lines appear twice, nothing is matched.
C15_ModifiedFileGivesOldThenNew ==
    \A i \in DiffsOK :
        (OnlyStaged(Modified) /\ ReadHeadBlob(repo, "f").exists /\ ReadWorkFile(repo, "f").exists)
        => BodyLines(diffCalls[i].ret.text, {"+", "-"})
             = Signed("-", LinesOf(repo.tree["f"].data))
               \o Signed("+", LinesOf(repo.work["f"].data))

\* what diffBuilder.String() was in a call, before the length test
Untruncated(i) == Blocks(repo, diffCalls[i].order)

\* the number of characters of a text, and its first n characters
CharCount(text) == Cardinality({k \in DOMAIN text : ~IsContinuation(text[k])})
FirstChars(text, n) ==
    SubSeq(text, 1, CHOOSE k \in n..Len(text) :
                        /\ CharCount(SubSeq(text, 1, k)) = n
                        /\ (k = Len(text) \/ ~IsContinuation(text[k + 1])))

StagedFiles == {p \in DOMAIN repo.status : repo.status[p].staging \notin {Unmodified, Untracked}}
DiffGitLines(text) ==
    SelectSeq(LinesOf(text), LAMBDA line : HasPrefix(line, <<"d", "i", "f", "f", " ", "-", "-", "g", "i", "t", " ">>))

\* C17: every file whose staging status is neither unmodified nor untracked
\* (Added, Deleted, Modified, Renamed, Copied) contributes one block that starts
\* with a diff --git line; unmodified and untracked files contribute nothing.
C17_OneBlockPerStagedFile ==
    \A i \in DiffsOK :
        /\ Len(DiffGitLines(Untruncated(i))) = Cardinality(StagedFiles)
        /\ \A p \in DOMAIN repo.status :
              IF p \in StagedFiles
              THEN HasPrefix(FileBlock(repo, p), <<"d", "i", "f", "f", " ", "-", "-", "g", "i", "t", " ">>)
              ELSE FileBlock(repo, p) = <<>>

\* C18: the blocks come in the order of the status scan, so the calls made on
\* an unchanged repository return the same text, with two staged files too.
C18_SameTextOnEveryCall ==
    \A i, j \in DOMAIN diffCalls : diffCalls[i].ret = diffCalls[j].ret

\* the content the block of a staged file needs cannot be read
ReadFails(p) ==
    \/ repo.status[p].staging \in {Added, Modified} /\ ~ReadWorkFile(repo, p).exists
    \/ repo.status[p].staging \in {Deleted, Modified} /\ ~ReadHeadBlob(repo, p).exists

\* C19: when the content of the staged file f cannot be read, GetStagedDiff
\* still succeeds, the block of the other file is what it is anyway, and the
\* block of f is its header lines, with no + or - body line.
C19_UnreadableFileGivesHeadersOnly ==
    \A i \in DOMAIN diffCalls :
        (repo.scan = "ok" /\ repo.head \in {"ok", "notfound"} /\ ReadFails("f"))
        => /\ diffCalls[i].ret.err = "nil"
           /\ BodyLines(diffCalls[i].ret.text, {"+", "-"})
                = IF "g" \in DOMAIN repo.status
                  THEN BodyLines(FileBlock(repo, "g"), {"+", "-"})
                  ELSE <<>>

\* C20 as stated: an error is returned only when the repository handle or the
\* status scan cannot be had; a failure to resolve the HEAD reference, its
\* commit or its tree gives a diff text and no error.
C20_ErrorOnlyFromHandleOrScan ==
    \A i \in DOMAIN diffCalls : diffCalls[i].ret.err # "nil" <=> repo.scan # "ok"

\* C20, corrected: an error (and the empty text) is returned exactly when the
\* repository cannot be opened, its worktree or status cannot be had, the HEAD
\* reference fails to resolve for another reason than not existing, or the
\* tree of the HEAD commit cannot be read; a HEAD reference that does not
\* exist and a HEAD commit that cannot be read give a diff text and no error.
C20_ErrorFromScanOrHeadOrTree ==
    \A i \in DOMAIN diffCalls :
        /\ diffCalls[i].ret.err # "nil"
             <=> (repo.scan # "ok" \/ repo.head \in {"referr", "treeerr"})
        /\ diffCalls[i].ret.err # "nil" => diffCalls[i].ret.text = <<>>
        /\ (repo.scan = "ok" /\ repo.head \in {"notfound", "commiterr"})
             => /\ diffCalls[i].ret.err = "nil"
                /\ Len(DiffGitLines(diffCalls[i].ret.text))
                     = Cardinality({p \in StagedFiles : repo.status[p].staging # Copied})

\* the status was scanned, two files are staged, and the call failed on the
\* tree of the HEAD commit
C20_Witness ==
    /\ repo.scan = "ok"
    /\ repo.head = "treeerr"
    /\ Cardinality(StagedFiles) = 2
    /\ \E i \in DOMAIN diffCalls : diffCalls[i].ret = DiffReturn(<<>>, "failed to get HEAD tree")

----------------------------------------------------------------------------
(* Claims about buildPrompt *)

HasSuffix(s, p) == Len(s) >= Len(p) /\ SubSeq(s, Len(s) - Len(p) + 1, Len(s)) = p

\* the text occurs somewhere in s
Contains(s, text) ==
    \E k \in 1..(Len(s) - Len(text) + 1) :
        s[k] = text[1] /\ SubSeq(s, k, k + Len(text) - 1) = text

\* a merge, a rebase or a cherry-pick
IsSpecial(gitState) == gitState.Type \in GitStateTypes \ {StateNormal}

\* what the prompt ends with: the rules block if there are rules, then the diff
PromptTail ==
    GeneralInstructions
    \o (IF built.rules # <<>> THEN TeamRulesLabel \o built.rules \o <<"\n", "\n">> ELSE <<>>)
    \o DiffLabel \o built.diff

\* what the prompt holds between the role preamble and the general instructions
PromptStatePart ==
    SubSeq(built.prompt, Len(RolePreamble) + 1, Len(built.prompt) - Len(PromptTail))

\* C21: the prompt is the role preamble, then the state-specific block exactly
\* when the state is not Normal, then the general instructions, then the Team
\* Rules block with the rules verbatim exactly when the rules are not empty,
\* then the label Diff: and the diff verbatim as its last characters.
C21_PromptStructure ==
    built.done
    => /\ HasPrefix(built.prompt, RolePreamble)
       /\ HasSuffix(built.prompt, PromptTail)
       /\ Len(built.prompt) >= Len(RolePreamble) + Len(PromptTail)
       /\ PromptStatePart # <<>> <=> IsSpecial(built.gitState)
       /\ PromptStatePart # <<>>
            => HasPrefix(PromptStatePart, SpecialHeader) /\ HasSuffix(PromptStatePart, SpecialFooter)
       /\ Contains(built.prompt, TeamRulesLabel) <=> built.rules # <<>>
       /\ HasSuffix(built.prompt, DiffLabel \o built.diff)

C21_Witness ==
    /\ built.done
    /\ built.gitState.Type = StateRebase
    /\ built.rules = <<"r", "\n">>
    /\ built.diff = <<"\n", "d">>
    /\ HasSuffix(built.prompt, <<"r", "\n", "\n", "\n">> \o DiffLabel \o <<"\n", "d">>)

MergeTemplate ==
    <<"<", "t", "y", "p", "e", ">", "(", "m", "e", "r", "g", "e", ")", ":", " ", "M", "e", "r",
      "g", "e", "d", " ">>
RebaseTemplate ==
    <<"<", "t", "y", "p", "e", ">", "(", "r", "e", "b", "a", "s", "e", ")", ":", " ", "R", "e",
      "b", "a", "s", "e", "d", " ">>
CherryPickTemplate ==
    <<"<", "t", "y", "p", "e", ">", "(", "c", "h", "e", "r", "r", "y", "-", "p", "i", "c", "k",
      ")", ":", " ", "C", "h", "e", "r", "r", "y", "-", "p", "i", "c", "k", "e", "d", " ">>
ScopeWarning ==
    <<"T", "h", "e", " ", "s", "c", "o", "p", "e", " ", "M", "U", "S", "T", " ", "b", "e", " ",
      "'", "c", "h", "e", "r", "r", "y", "-", "p", "i", "c", "k", "'">>
TypeGuidance ==
    <<" ", " ", " ", "-", " ", "f", "e", "a", "t", ":", " ", "i", "f", " ", "a", "d", "d", "i",
      "n", "g", " ", "n", "e", "w", " ", "f", "e", "a", "t", "u", "r", "e", "s", " ", "o", "r",
      " ", "c", "a", "p", "a", "b", "i", "l", "i", "t", "i", "e", "s", "\n", " ", " ", " ",
      "-", " ", "f", "i", "x", ":", " ", "i", "f", " ", "f", "i", "x", "i", "n", "g", " ", "b",
      "u", "g", "s", " ", "o", "r", " ", "i", "s", "s", "u", "e", "s", "\n", " ", " ", " ",
      "-", " ", "r", "e", "f", "a", "c", "t", "o", "r", ":", " ", "i", "f", " ", "r", "e", "s",
      "t", "r", "u", "c", "t", "u", "r", "i", "n", "g", " ", "c", "o", "d", "e", " ", "w", "i",
      "t", "h", "o", "u", "t", " ", "c", "h", "a", "n", "g", "i", "n", "g", " ", "f", "u", "n",
      "c", "t", "i", "o", "n", "a", "l", "i", "t", "y", "\n", " ", " ", " ", "-", " ", "c",
      "h", "o", "r", "e", ":", " ", "i", "f", " ", "u", "p", "d", "a", "t", "i", "n", "g", " ",
      "d", "e", "p", "e", "n", "d", "e", "n", "c", "i", "e", "s", ",", " ", "c", "o", "n", "f",
      "i", "g", "s", ",", " ", "o", "r", " ", "m", "a", "i", "n", "t", "e", "n", "a", "n", "c",
      "e", " ", "t", "a", "s", "k", "s", "\n", " ", " ", " ", "-", " ", "d", "o", "c", "s",
      ":", " ", "i", "f", " ", "p", "r", "i", "m", "a", "r", "i", "l", "y", " ", "d", "o", "c",
      "u", "m", "e", "n", "t", "a", "t", "i", "o", "n", " ", "c", "h", "a", "n", "g", "e", "s",
      "\n">>

\* the label that introduces the original message in the block of a state
OriginalLabel(type) ==
    IF type = StateMerge THEN <<"O", "r", "i", "g", "i", "n", "a", "l", " ", "m", "e", "r", "g", "e", " ", "i", "n", "t",
      "e", "n", "t", ":", " ", "\"">>
    ELSE IF type = StateRebase THEN <<"R", "e", "b", "a", "s", "e", " ", "c", "o", "n", "t", "e", "x", "t", ":", " ">>
    ELSE <<"O", "r", "i", "g", "i", "n", "a", "l", " ", "c", "o", "m", "m", "i", "t", ":", " ", "\"">>

\* C22: the state block is chosen by the state's type alone: each type gives
\* its own first-line template and no other, every block lists the same five
\* types with the same guidance, the warning about the cherry-pick scope is in
\* the cherry-pick block only, and the line with the original message is
\* there exactly when that message is not empty.
C22_BlockSelectedByType ==
    built.done
    => /\ Contains(built.prompt, MergeTemplate) <=> built.gitState.Type = StateMerge
       /\ Contains(built.prompt, RebaseTemplate) <=> built.gitState.Type = StateRebase
       /\ Contains(built.prompt, CherryPickTemplate) <=> built.gitState.Type = StateCherryPick
       /\ IsSpecial(built.gitState) => Contains(PromptStatePart, TypeGuidance)
       /\ Contains(built.prompt, ScopeWarning) <=> built.gitState.Type = StateCherryPick
       /\ \A type \in GitStateTypes \ {StateNormal} :
             /\ Contains(built.prompt, OriginalLabel(type))
                  <=> (built.gitState.Type = type /\ built.gitState.OriginalMessage # <<>>)
             /\ Contains(built.prompt, OriginalLabel(type))
                  => Contains(built.prompt, OriginalLabel(type) \o built.gitState.OriginalMessage)

C22_Witness ==
    /\ built.done
    /\ built.gitState = GitState(StateCherryPick, <<"m">>, TRUE)
    /\ Contains(built.prompt, ScopeWarning)
    /\ Contains(built.prompt, OriginalLabel(StateCherryPick) \o <<"m", "\"", "\n">>)

----------------------------------------------------------------------------
(* Claims about openRepo *)

\* C23: open() returns the memoized handle exactly when the recorded working
\* directory is the current one, and reopens after a change of directory; the
\* results are those of an implementation that opens afresh on each call.
C23_HandleMemoizedPerDirectory ==
    \A i \in DOMAIN opened :
        /\ (i > 1 /\ opened[i - 1].err = "nil" /\ opened[i].err = "nil")
             => (opened[i].handle = opened[i - 1].handle <=> opened[i].wd = opened[i - 1].wd)
        /\ opened[i].err = openRepo(opened[i].wd, i).err

----------------------------------------------------------------------------
(* Claims about HasStagedChanges *)

\* C24: HasStagedChanges returns true exactly when a file of the status scan
\* has a staging status that is neither Unmodified nor Untracked: false for an
\* empty repository and for one with only an untracked file, true once a
\* file is added to the index.
C24_TrueIffAFileIsStaged ==
    staged.called
    => /\ staged.err = "nil" <=> repo.scan = "ok"
       /\ staged.err = "nil" => (staged.has <=> StagedFiles # {})
       /\ staged.err # "nil" => ~staged.has
       /\ (repo.scan = "ok" /\ DOMAIN repo.status = {}) => ~staged.has
       /\ (repo.scan = "ok" /\ \A p \in DOMAIN repo.status : repo.status[p].staging = Untracked)
            => ~staged.has
       /\ (repo.scan = "ok" /\ \E p \in DOMAIN repo.status : repo.status[p].staging = Added)
            => staged.has

\* an untracked file g only, and the answer false
C24_Witness ==
    /\ staged.called
    /\ repo.scan = "ok"
    /\ DOMAIN repo.status = {"f", "g"}
    /\ repo.status["f"].staging = Unmodified
    /\ repo.status["g"].staging = Untracked
    /\ staged = StagedReturn(FALSE, "nil")

\* C26: on the same repository, HasStagedChanges returns true if and only if
\* GetStagedDiff returns a text that is not empty.
C26_StagedIffDiffNotEmpty ==
    \A i \in DiffsOK :
        (staged.called /\ staged.err = "nil")
        => (staged.has <=> diffCalls[i].ret.text # <<>>)

----------------------------------------------------------------------------
(* Claims about LoadRules *)

\* the directories from the working directory up that hold .git, by depth
RootsAbove == {i \in 0..Len(loader.cwd) : loader.gitAt[i] # "absent"}
NearestRoot == CHOOSE i \in RootsAbove : \A j \in RootsAbove : j <= i

\* C25 as stated: the rules file of the first directory with .git, going up
\* from the working directory, is returned verbatim when it exists; the empty
\* string and no error are returned when it is missing and when no directory
\* holds .git.
C25_RulesOfNearestRoot ==
    loader.pc = "done"
    => /\ loader.result.err = "nil"
       /\ loader.result.text =
            IF ~loader.gone /\ RootsAbove # {} /\ loader.rulesAt[NearestRoot].kind # "missing"
            THEN loader.rulesAt[NearestRoot].data
            ELSE <<>>

\* C25, with the file that exists and cannot be read: the content is returned
\* verbatim when the file can be read, the empty string and the read error
\* when it is there and cannot be read, the empty string and no error when it
\* is missing, when no directory holds .git and when the working directory
\* cannot be had; the walk ends, after one look per directory at most.
C25_RulesOfNearestRootIfReadable ==
    /\ [](loader.pc = "done"
            => /\ loader.stats <= Len(loader.cwd) + 1
               /\ loader.result =
                    IF loader.gone \/ RootsAbove = {} THEN LoadReturn(<<>>, "nil")
                    ELSE IF loader.rulesAt[NearestRoot].kind = "file"
                         THEN LoadReturn(loader.rulesAt[NearestRoot].data, "nil")
                    ELSE IF loader.rulesAt[NearestRoot].kind = "missing"
                         THEN LoadReturn(<<>>, "nil")
                    ELSE LoadReturn(<<>>, "read error"))
    /\ <>(loader.pc = "done")

\* the rules came from a directory two levels up, past a nearer rules file
\* in a directory without .git
C25_Witness ==
    /\ loader.pc = "done"
    /\ Len(loader.cwd) = 2
    /\ loader.stats = 3
    /\ loader.rulesAt[2].kind = "file"
    /\ loader.rulesAt[0].kind = "file"
    /\ loader.result = LoadReturn(<<" ", "r", "\n">>, "nil")

----------------------------------------------------------------------------
(* Claims about App.Run *)

StepsInOrder ==
    <<"IsInsideRepo", "HasStagedChanges", "LoadRules", "DetectState", "GetStagedDiff",
      "GenerateCommitMessage">>

AICalls == {i \in DOMAIN run.log : run.log[i] = "GenerateCommitMessage"}

\* C27: the steps of App.Run come in the order repository check, staged
\* check, rules load, state detection, diff, AI call; the AI client is called
\* at most once, and only after IsInsideRepo and HasStagedChanges returned
\* true and GetStagedDiff succeeded; a failure of the rules load or of the
\* state detection does not stop the run, which goes on with empty rules or
\* with a Normal state.
C27_StepsInOrderAIOnceAtTheEnd ==
    /\ Len(run.log) <= Len(StepsInOrder)
    /\ run.log = SubSeq(StepsInOrder, 1, Len(run.log))
    /\ Cardinality(AICalls) <= 1
    /\ AICalls # {}
         => /\ run.env.inside = [inside |-> TRUE, err |-> "nil"]
            /\ run.env.staged = StagedReturn(TRUE, "nil")
            /\ run.env.diff.err = "nil"
            /\ run.aiArgs.diff = run.env.diff.text
            /\ run.aiArgs.rules = IF run.env.rules.err # "nil" THEN <<>> ELSE run.env.rules.text
            /\ run.aiArgs.gitState =
                 IF run.env.state.err # "nil" THEN GitState(StateNormal, <<>>, FALSE)
                 ELSE run.env.state.state
    /\ (run.pc = "done" /\ run.env.inside = [inside |-> TRUE, err |-> "nil"]
          /\ run.env.staged = StagedReturn(TRUE, "nil") /\ run.env.diff.err = "nil")
         => AICalls # {}

\* the rules load and the state detection both failed, and the AI client was
\* called with empty rules and a Normal state
C27_Witness ==
    /\ run.pc = "done"
    /\ run.env.rules.err # "nil"
    /\ run.env.state.err # "nil"
    /\ run.log = StepsInOrder
    /\ run.aiArgs = [diff |-> <<"d">>, rules |-> <<>>,
                     gitState |-> GitState(StateNormal, <<>>, FALSE)]
    /\ run.err = "nil"

----------------------------------------------------------------------------
(* More claims about GenerateCommitMessage *)

\* C28: a transport failure of an attempt, whichever attempt it is, ends the
\* call at once with an error: nothing is sent and no sleep is made after it.
C28_TransportFailureIsFinal ==
    \A i \in DOMAIN trace :
        trace[i].op = "failed"
        => /\ i = Len(trace)
           /\ trace[i - 1].op = "send"
           /\ pc = "done"
           /\ outcomes = 1
           /\ result = Returned(<<>>, "TransportError", 0, NoBody)
           /\ sleeping = 0
           /\ inflight = 0

\* the second attempt, made after a 429 and its backoff, failed
C28_Witness ==
    /\ pc = "done"
    /\ Len(trace) = 5
    /\ trace[2].op = "recv"
    /\ trace[2].status = StatusTooManyRequests
    /\ trace[3].op = "slept"
    /\ trace[4] = [op |-> "send", attempt |-> 1]
    /\ trace[5].op = "failed"
    /\ result.err = "TransportError"

----------------------------------------------------------------------------
(* Claims about the working directory of GetStagedDiff *)

\* C29: on the same repository GetStagedDiff returns the same text from the
\* repository root and from a directory below it: the body lines of Added and
\* Modified files come from the file at its path relative to the root.
C29_SameTextFromSubdirectory ==
    \A i, j \in DiffsOK :
        (diffCalls[i].wd = "root" /\ diffCalls[j].wd = "sub"
           /\ diffCalls[i].order = diffCalls[j].order)
        => diffCalls[j].ret.text = diffCalls[i].ret.text

====
